---- MODULE Spec2Model ----
(***************************************************************************)
(* Model of the ChatKit widget compiler of the chatkit-implementation      *)
(* backend:                                                                *)
(*   - chatkit_validation_reference.py : the rule tables and               *)
(*     validate_and_map_parameter (reference attribute normalizer);        *)
(*   - app/chatkit_widget_renderer.py  : the spec-driven tree compiler     *)
(*     render_chatkit_widget_from_json / _parse_widget_component;          *)
(*   - app/json_widget.py              : the generic-data renderer         *)
(*     render_json_widget / _render_json_content.                          *)
(*                                                                         *)
(* Every operation is a pure function of its arguments.  The state is the  *)
(* call (operation and arguments), what it returned, and the two           *)
(* process-wide rule tables.                                               *)
(*                                                                         *)
(* JSON values are tagged records, so that values of different JSON kinds  *)
(* can be told apart the way isinstance() does:                            *)
(*    [k |-> "null"]   [k |-> "bool", v |-> TRUE]   [k |-> "num", v |-> 1]  *)
(*    [k |-> "str", v |-> "abc"]     [k |-> "arr", v |-> <<j1, j2>>]       *)
(*    [k |-> "obj", v |-> << <<"key", j1>>, ... >>]                        *)
(* An object is the sequence of its (key, value) pairs in source order,    *)
(* which is the order a Python dict keeps.                                 *)
(***************************************************************************)
EXTENDS Integers, Sequences, FiniteSets, TLC

VARIABLES call, ret, pc, rules, mappings, stack, streamed

vars == <<call, ret, pc, rules, mappings, stack, streamed>>

(***************************************************************************)
(* JSON values                                                             *)
(***************************************************************************)
JNull == [k |-> "null"]
JBool(b) == [k |-> "bool", v |-> b]
JNum(n) == [k |-> "num", v |-> n]
JStr(s) == [k |-> "str", v |-> s]
JArr(items) == [k |-> "arr", v |-> items]
JObj(pairs) == [k |-> "obj", v |-> pairs]

\* a float, held in tenths: JFloat(15) is 1.5
JFloat(tenths) == [k |-> "float", v |-> tenths]

\* isinstance(x, dict)
IsDict(j) == j.k = "obj"

\* `key in d` for a dict d
Has(d, key) == \E i \in 1..Len(d.v) : d.v[i][1] = key

\* d[key] for a dict d that holds key
Get(d, key) == d.v[CHOOSE i \in 1..Len(d.v) : d.v[i][1] = key][2]

\* d.get(key, default)
GetOr(d, key, default) == IF Has(d, key) THEN Get(d, key) ELSE default

\* iterating a dict yields its keys, in order (from position i on)
RECURSIVE SelectKeys(_, _)
SelectKeys(pairs, i) ==
    IF i > Len(pairs) THEN <<>>
    ELSE <<JStr(pairs[i][1])>> \o SelectKeys(pairs, i + 1)

\* iterating a str yields its characters, in order (from position i on)
RECURSIVE StrChars(_, _)
StrChars(s, i) ==
    IF i > Len(s) THEN <<>>
    ELSE <<JStr(SubSeq(s, i, i))>> \o StrChars(s, i + 1)

(***************************************************************************)
(* Python string operations used by the code                               *)
(***************************************************************************)
UpperAlphabet == "ABCDEFGHIJKLMNOPQRSTUVWXYZ"
LowerAlphabet == "abcdefghijklmnopqrstuvwxyz"

\* one character of str.lower()
LowerChar(c) ==
    IF \E i \in 1..Len(UpperAlphabet) : SubSeq(UpperAlphabet, i, i) = c
    THEN LET i == CHOOSE i \in 1..Len(UpperAlphabet) : SubSeq(UpperAlphabet, i, i) = c
         IN  SubSeq(LowerAlphabet, i, i)
    ELSE c

\* str.lower()
RECURSIVE Lower(_)
Lower(s) ==
    IF Len(s) = 0 THEN ""
    ELSE LowerChar(SubSeq(s, 1, 1)) \o Lower(SubSeq(s, 2, Len(s)))

\* `a in b` for two strings: a is a substring of b
StrContains(b, a) ==
    \E i \in 1..(Len(b) - Len(a) + 1) : SubSeq(b, i, i + Len(a) - 1) = a

(***************************************************************************)
(* chatkit_validation_reference.py                                         *)
(* A rule is either a Python list of allowed values (an enumerated         *)
(* allow-list) or a descriptive string.                                    *)
(***************************************************************************)
RList(items) == [kind |-> "list", items |-> items]
RText(text) == [kind |-> "str", text |-> text]

SizeValues == <<"xs", "sm", "md", "lg", "xl">>
AlignValues == <<"start", "center", "end", "stretch">>
JustifyValues == <<"start", "center", "end", "between", "around", "evenly">>
WeightValues == <<"normal", "medium", "semibold", "bold">>
PickerVariants == <<"default", "outline", "ghost">>

CHATKIT_VALIDATION_RULES ==
    [Button |->
        [variant |-> RList(<<"solid", "soft", "outline", "ghost">>),
         size |-> RList(SizeValues),
         action_param |-> RText("onClickAction")],
     Box |->
        [direction |-> RList(<<"row", "col">>),
         align |-> RList(AlignValues),
         justify |-> RList(JustifyValues)],
     Text |->
        [size |-> RList(SizeValues),
         weight |-> RList(WeightValues),
         color |-> RList(<<"primary", "secondary", "tertiary", "success",
                           "warning", "error", "accent">>),
         family |-> RList(<<"default", "mono">>),
         style |-> RList(<<"normal", "italic">>)],
     Card |->
        [size |-> RList(SizeValues),
         theme |-> RList(<<"light", "dark">>),
         background |-> RText("CSS background value (gradients, colors, etc.)"),
         padding |-> RText("number (padding in pixels)"),
         status |-> RList(<<"success", "warning", "error">>),
         collapsed |-> RText("boolean"),
         asForm |-> RText("boolean"),
         confirm |-> RText("object with label and action"),
         cancel |-> RText("object with label and action")],
     Row |->
        [align |-> RList(AlignValues),
         justify |-> RList(JustifyValues)],
     Col |->
        [align |-> RList(AlignValues),
         justify |-> RList(JustifyValues)],
     Caption |->
        [size |-> RList(SizeValues),
         weight |-> RList(WeightValues),
         color |-> RList(<<"primary", "secondary", "tertiary", "success",
                           "warning", "error", "accent", "muted">>),
         textAlign |-> RList(<<"left", "center", "right", "justify">>)],
     Image |->
        [src |-> RText("URL string (required)"),
         alt |-> RText("Alt text string"),
         fit |-> RList(<<"cover", "contain", "fill", "scale-down", "none">>),
         position |-> RList(<<"center", "top", "bottom", "left", "right">>),
         size |-> RList(SizeValues),
         radius |-> RText("number or string"),
         width |-> RText("number"),
         height |-> RText("number")],
     Spacer |->
        [minSize |-> RText("number (minimum space size)")],
     DatePicker |->
        [name |-> RText("string (required)"),
         placeholder |-> RText("string"),
         variant |-> RList(PickerVariants),
         size |-> RList(SizeValues),
         defaultValue |-> RText("date string"),
         min |-> RText("date string"),
         max |-> RText("date string"),
         onChangeAction |-> RText("action object")],
     Select |->
        [name |-> RText("string (required)"),
         options |-> RText("array of {label, value} objects (required)"),
         placeholder |-> RText("string"),
         variant |-> RList(PickerVariants),
         size |-> RList(SizeValues),
         defaultValue |-> RText("string"),
         onChangeAction |-> RText("action object")]]

PARAMETER_MAPPINGS ==
    [button_variant |->
        [primary |-> "solid", secondary |-> "outline", tertiary |-> "ghost",
         default |-> "solid"],
     box_direction |->
        [column |-> "col", horizontal |-> "row", vertical |-> "col",
         default |-> "col"],
     text_weight |->
        [regular |-> "normal", strong |-> "bold", default |-> "normal"]]

\* widget_rules.get(param_name, []) after CHATKIT_VALIDATION_RULES.get(widget_type, {})
valid_values(widget_type, param_name) ==
    IF widget_type \in DOMAIN rules /\ param_name \in DOMAIN rules[widget_type]
    THEN rules[widget_type][param_name]
    ELSE RList(<<>>)

\* `value in valid_values`: list membership, or substring of a descriptive string
InValid(value, vv) ==
    IF vv.kind = "list"
    THEN \E i \in 1..Len(vv.items) : vv.items[i] = value
    ELSE StrContains(vv.text, value)

\* bool(valid_values)
Truthy(vv) == IF vv.kind = "list" THEN Len(vv.items) > 0 ELSE Len(vv.text) > 0

\* valid_values[0]: the first item of a list, the first character of a string
First(vv) == IF vv.kind = "list" THEN vv.items[1] ELSE SubSeq(vv.text, 1, 1)

\* f"{widget_type.lower()}_{param_name}"
mapping_key(widget_type, param_name) == Lower(widget_type) \o "_" \o param_name

\* validate_and_map_parameter without the "already valid" early return
validate_and_map_parameter_NoValidCheck(widget_type, param_name, value) ==
    LET vv == valid_values(widget_type, param_name)
        mk == mapping_key(widget_type, param_name)
    IN  IF mk \in DOMAIN mappings /\ value \in DOMAIN mappings[mk]
        THEN mappings[mk][value]
        ELSE IF mk \in DOMAIN mappings /\ "default" \in DOMAIN mappings[mk]
        THEN mappings[mk]["default"]
        ELSE IF Truthy(vv) THEN First(vv)
        ELSE value

\* validate_and_map_parameter that ignores the alias entry and takes the default
validate_and_map_parameter_NoAlias(widget_type, param_name, value) ==
    LET vv == valid_values(widget_type, param_name)
        mk == mapping_key(widget_type, param_name)
    IN  IF InValid(value, vv) THEN value
        ELSE IF mk \in DOMAIN mappings /\ "default" \in DOMAIN mappings[mk]
        THEN mappings[mk]["default"]
        ELSE IF Truthy(vv) THEN First(vv)
        ELSE value

\* validate_and_map_parameter without the first-valid-value fallback
validate_and_map_parameter_NoFirst(widget_type, param_name, value) ==
    LET vv == valid_values(widget_type, param_name)
        mk == mapping_key(widget_type, param_name)
    IN  IF InValid(value, vv) THEN value
        ELSE IF mk \in DOMAIN mappings /\ value \in DOMAIN mappings[mk]
        THEN mappings[mk][value]
        ELSE IF mk \in DOMAIN mappings /\ "default" \in DOMAIN mappings[mk]
        THEN mappings[mk]["default"]
        ELSE value

validate_and_map_parameter(widget_type, param_name, value) ==
    LET vv == valid_values(widget_type, param_name)
        mk == mapping_key(widget_type, param_name)
    IN  IF InValid(value, vv) THEN value
        ELSE IF mk \in DOMAIN mappings /\ value \in DOMAIN mappings[mk]
        THEN mappings[mk][value]
        ELSE IF mk \in DOMAIN mappings /\ "default" \in DOMAIN mappings[mk]
        THEN mappings[mk]["default"]
        ELSE IF Truthy(vv) THEN First(vv)
        ELSE value

(***************************************************************************)
(* Python values and failures                                              *)
(***************************************************************************)
\* type(x).__name__ of a JSON value
PyTypeName(j) ==
    CASE j.k = "null" -> "NoneType"
      [] j.k = "bool" -> "bool"
      [] j.k = "num" -> "int"
      [] j.k = "str" -> "str"
      [] j.k = "arr" -> "list"
      [] j.k = "obj" -> "dict"
      [] j.k = "float" -> "float"
      [] j.k = "object" -> "set"

Digits == "0123456789"

\* str(n) for an integer n
RECURSIVE IntToStr(_)
IntToStr(n) ==
    IF n < 0 THEN "-" \o IntToStr(0 - n)
    ELSE IF n < 10 THEN SubSeq(Digits, n + 1, n + 1)
    ELSE IntToStr(n \div 10) \o SubSeq(Digits, (n % 10) + 1, (n % 10) + 1)

\* repr(x) and str(x) of a JSON value: str() differs from repr() on strings only
RECURSIVE PyRepr(_), PyReprItems(_, _), PyReprPairs(_, _)
PyRepr(j) ==
    CASE j.k = "null" -> "None"
      [] j.k = "bool" -> IF j.v THEN "True" ELSE "False"
      [] j.k = "num" -> IntToStr(j.v)
      [] j.k = "float" -> IntToStr(j.v \div 10) \o "." \o IntToStr(j.v % 10)
      [] j.k = "object" -> "{1}"
      [] j.k = "str" -> "'" \o j.v \o "'"
      [] j.k = "arr" -> "[" \o PyReprItems(j.v, 1) \o "]"
      [] j.k = "obj" -> "{" \o PyReprPairs(j.v, 1) \o "}"

PyReprItems(items, i) ==
    IF i > Len(items) THEN ""
    ELSE PyRepr(items[i]) \o (IF i < Len(items) THEN ", " ELSE "")
            \o PyReprItems(items, i + 1)

PyReprPairs(pairs, i) ==
    IF i > Len(pairs) THEN ""
    ELSE "'" \o pairs[i][1] \o "': " \o PyRepr(pairs[i][2])
            \o (IF i < Len(pairs) THEN ", " ELSE "") \o PyReprPairs(pairs, i + 1)

PyStr(j) == IF j.k = "str" THEN j.v ELSE PyRepr(j)

\* bool(x) of a JSON value is False
Falsy(j) ==
    CASE j.k = "null" -> TRUE
      [] j.k = "bool" -> ~j.v
      [] j.k = "num" -> j.v = 0
      [] j.k = "str" -> Len(j.v) = 0
      [] j.k = "arr" -> Len(j.v) = 0
      [] j.k = "obj" -> Len(j.v) = 0

\* hash(x) raises TypeError: lists and dicts
Unhashable(j) == j.k \in {"arr", "obj"}

\* a raised exception, and the None a function returns
Raise(exc, msg) == [type |-> "raise", exc |-> exc, msg |-> msg]
IsRaise(x) == x.type = "raise"
None == [type |-> "None"]
IsNone(x) == x.type = "None"

NotIterable(j) == Raise("TypeError", "'" \o PyTypeName(j) \o "' object is not iterable")
NoGet(j) == Raise("AttributeError", "'" \o PyTypeName(j) \o "' object has no attribute 'get'")
UnhashableError(j) == Raise("TypeError", "unhashable type: '" \o PyTypeName(j) \o "'")

(***************************************************************************)
(* chatkit.widgets components: a component is the record of the keyword     *)
(* arguments its constructor was given, tagged with the component type.     *)
(* Attribute values are JSON values; children is a sequence of components.  *)
(***************************************************************************)
Node(type, kwargs) == ("type" :> type) @@ kwargs

NoKwargs == [n \in {} |-> JNull]

\* the kwargs of a passthrough serializer: every key of the spec but `type`
\* and `children`
Optional_Passthrough(spec, names) ==
    [n \in {spec.v[i][1] : i \in 1..Len(spec.v)} \ {"type", "children"} |-> Get(spec, n)]

\* the kwargs added by `if name in spec: kwargs[name] = spec[name]`, for each name
Optional(spec, names) == [n \in {m \in names : Has(spec, m)} |-> Get(spec, n)]

ContainerTypes == {"Card", "Box", "Row", "Col"}

(***************************************************************************)
(* app/chatkit_widget_renderer.py                                          *)
(***************************************************************************)
RECURSIVE _parse_widget_component(_)

\* the items `for child_spec in spec["children"]` iterates over, or the TypeError
IterChildren(c) ==
    CASE c.k = "arr" -> [ok |-> TRUE, items |-> c.v]
      [] c.k = "str" -> [ok |-> TRUE, items |-> StrChars(c.v, 1)]
      [] c.k = "obj" -> [ok |-> TRUE, items |-> SelectKeys(c.v, 1)]
      [] OTHER -> [ok |-> FALSE, exc |-> NotIterable(c)]

\* the loop body over items[i..]: compile each entry, keep what is not None
RECURSIVE CompileEach(_, _)
CompileEach(items, i) ==
    IF i > Len(items) THEN [ok |-> TRUE, items |-> <<>>]
    ELSE LET child == _parse_widget_component(items[i])
         IN  IF IsRaise(child) THEN [ok |-> FALSE, exc |-> child]
             ELSE LET rest == CompileEach(items, i + 1)
                  IN  IF ~rest.ok THEN rest
                      ELSE IF IsNone(child) THEN rest
                      ELSE [ok |-> TRUE, items |-> <<child>> \o rest.items]

\* the children loop with the entries compiled in reverse order
parse_children_Reversed(spec) ==
    IF ~Has(spec, "children") THEN [ok |-> TRUE, items |-> <<>>]
    ELSE LET it == IterChildren(Get(spec, "children"))
         IN  IF ~it.ok THEN it
             ELSE LET r == CompileEach(it.items, 1)
                  IN  IF ~r.ok THEN r
                      ELSE [ok |-> TRUE,
                            items |-> [i \in 1..Len(r.items) |->
                                          r.items[Len(r.items) + 1 - i]]]

\* the children loop of _parse_card, _parse_row, _parse_col and _parse_box
parse_children(spec) ==
    IF ~Has(spec, "children") THEN [ok |-> TRUE, items |-> <<>>]
    ELSE LET it == IterChildren(Get(spec, "children"))
         IN  IF ~it.ok THEN it ELSE CompileEach(it.items, 1)

\* one button of the confirm/cancel row of a Card
ActionButton(button_spec, default_label, variant) ==
    IF ~IsDict(button_spec) THEN NoGet(button_spec)
    ELSE Node("Button",
              ("label" :> GetOr(button_spec, "label", JStr(default_label)))
                @@ ("variant" :> JStr(variant))
                @@ ("size" :> JStr("sm"))
                @@ (IF Has(button_spec, "action")
                    THEN ("onClickAction" :> Get(button_spec, "action"))
                    ELSE NoKwargs))

\* the confirm/cancel row with the Confirm button put first
button_row_children_ConfirmFirst(spec) ==
    LET cancel == IF Has(spec, "cancel")
                  THEN ActionButton(Get(spec, "cancel"), "Cancel", "outline")
                  ELSE None
        confirm == IF Has(spec, "confirm")
                   THEN ActionButton(Get(spec, "confirm"), "Confirm", "solid")
                   ELSE None
    IN  IF IsRaise(cancel) THEN [ok |-> FALSE, exc |-> cancel]
        ELSE IF IsRaise(confirm) THEN [ok |-> FALSE, exc |-> confirm]
        ELSE [ok |-> TRUE,
              items |-> (IF IsNone(confirm) THEN <<>> ELSE <<confirm>>)
                          \o (IF IsNone(cancel) THEN <<>> ELSE <<cancel>>)]

\* the confirm/cancel row always holding both buttons, a descriptor that is
\* absent taken as an empty one
button_row_children_AlwaysBoth(spec) ==
    LET cancel == ActionButton(GetOr(spec, "cancel", JObj(<<>>)), "Cancel", "outline")
        confirm == ActionButton(GetOr(spec, "confirm", JObj(<<>>)), "Confirm", "solid")
    IN  IF IsRaise(cancel) THEN [ok |-> FALSE, exc |-> cancel]
        ELSE IF IsRaise(confirm) THEN [ok |-> FALSE, exc |-> confirm]
        ELSE [ok |-> TRUE, items |-> <<cancel, confirm>>]

\* the buttons of the confirm/cancel row, or the exception building them raised
button_row_children(spec) ==
    LET cancel == IF Has(spec, "cancel")
                  THEN ActionButton(Get(spec, "cancel"), "Cancel", "outline")
                  ELSE None
        confirm == IF Has(spec, "confirm")
                   THEN ActionButton(Get(spec, "confirm"), "Confirm", "solid")
                   ELSE None
    IN  IF IsRaise(cancel) THEN [ok |-> FALSE, exc |-> cancel]
        ELSE IF IsRaise(confirm) THEN [ok |-> FALSE, exc |-> confirm]
        ELSE [ok |-> TRUE,
              items |-> (IF IsNone(cancel) THEN <<>> ELSE <<cancel>>)
                          \o (IF IsNone(confirm) THEN <<>> ELSE <<confirm>>)]

\* the Card built from the compiled children and the button row
card_of(spec, children, buttons) ==
    Node("Card",
         ("children" :> (children
                          \o (IF Len(buttons) > 0
                              THEN <<Node("Row", ("justify" :> JStr("end"))
                                                   @@ ("gap" :> JNum(2))
                                                   @@ ("children" :> buttons))>>
                              ELSE <<>>)))
           @@ ("size" :> GetOr(spec, "size", JStr("md")))
           @@ Optional(spec, {"background", "padding", "theme", "status",
                              "collapsed", "asForm"}))

_parse_card(spec) ==
    LET kids == parse_children(spec)
    IN  IF ~kids.ok THEN kids.exc
        ELSE IF Has(spec, "confirm") \/ Has(spec, "cancel")
        THEN LET buttons == button_row_children(spec)
             IN  IF ~buttons.ok THEN buttons.exc
                 ELSE card_of(spec, kids.items, buttons.items)
        ELSE card_of(spec, kids.items, <<>>)

_parse_row(spec) ==
    LET kids == parse_children(spec)
    IN  IF ~kids.ok THEN kids.exc
        ELSE Node("Row",
                  ("gap" :> GetOr(spec, "gap", JNum(2)))
                    @@ ("align" :> GetOr(spec, "align", JStr("center")))
                    @@ ("justify" :> GetOr(spec, "justify", JStr("start")))
                    @@ ("children" :> kids.items))

_parse_col(spec) ==
    LET kids == parse_children(spec)
    IN  IF ~kids.ok THEN kids.exc
        ELSE Node("Col",
                  ("gap" :> GetOr(spec, "gap", JNum(2)))
                    @@ ("align" :> GetOr(spec, "align", JStr("start")))
                    @@ ("children" :> kids.items))

VALID_COLORS ==
    {"primary", "secondary", "tertiary", "success", "warning", "error",
     "accent", "muted", "inherit"}

color_mapping ==
    [default |-> "primary", normal |-> "primary", text |-> "primary",
     label |-> "primary", disabled |-> "muted", danger |-> "error",
     info |-> "accent"]

\* `color in VALID_COLORS` for a hashable JSON value
InValidColors(color) == color.k = "str" /\ color.v \in VALID_COLORS

\* _parse_text that shows the placeholder whenever `editable` is present
_parse_text_EditableFirst(spec) ==
    LET value0 == GetOr(spec, "value", JStr(""))
        editable == Get(spec, "editable")
        useEditable == Has(spec, "editable")
        color == GetOr(spec, "color", JNull)
    IN  IF useEditable /\ ~IsDict(editable) THEN NoGet(editable)
        ELSE IF color.k # "null" /\ Unhashable(color) THEN UnhashableError(color)
        ELSE LET value == IF useEditable
                          THEN GetOr(editable, "placeholder", JStr("[Editable text]"))
                          ELSE value0
                 mapped_color ==
                     IF color.k = "null" THEN JStr("primary")
                     ELSE IF ~InValidColors(color)
                     THEN (IF color.k = "str" /\ color.v \in DOMAIN color_mapping
                           THEN JStr(color_mapping[color.v])
                           ELSE JStr("primary"))
                     ELSE color
             IN  Node("Text",
                      ("value" :> value)
                        @@ ("size" :> GetOr(spec, "size", JStr("md")))
                        @@ ("weight" :> GetOr(spec, "weight", JStr("normal")))
                        @@ ("color" :> mapped_color)
                        @@ Optional(spec, {"width", "minLines"})
                        @@ (IF Has(spec, "style") /\ Get(spec, "style") = JStr("italic")
                            THEN ("italic" :> JBool(TRUE))
                            ELSE NoKwargs))

_parse_text(spec) ==
    LET value0 == GetOr(spec, "value", JStr(""))
        editable == Get(spec, "editable")
        useEditable == Has(spec, "editable") /\ Falsy(value0)
        color == GetOr(spec, "color", JNull)
    IN  IF useEditable /\ ~IsDict(editable) THEN NoGet(editable)
        ELSE IF color.k # "null" /\ Unhashable(color) THEN UnhashableError(color)
        ELSE LET value == IF useEditable
                          THEN GetOr(editable, "placeholder", JStr("[Editable text]"))
                          ELSE value0
                 mapped_color ==
                     IF color.k = "null" THEN JStr("primary")
                     ELSE IF ~InValidColors(color)
                     THEN (IF color.k = "str" /\ color.v \in DOMAIN color_mapping
                           THEN JStr(color_mapping[color.v])
                           ELSE JStr("primary"))
                     ELSE color
             IN  Node("Text",
                      ("value" :> value)
                        @@ ("size" :> GetOr(spec, "size", JStr("md")))
                        @@ ("weight" :> GetOr(spec, "weight", JStr("normal")))
                        @@ ("color" :> mapped_color)
                        @@ Optional(spec, {"width", "minLines"})
                        @@ (IF Has(spec, "style") /\ Get(spec, "style") = JStr("italic")
                            THEN ("italic" :> JBool(TRUE))
                            ELSE NoKwargs))

_parse_title(spec) ==
    LET color == GetOr(spec, "color", JStr("primary"))
    IN  IF Unhashable(color) THEN UnhashableError(color)
        ELSE Node("Title",
                  ("value" :> GetOr(spec, "value", JStr("")))
                    @@ ("size" :> GetOr(spec, "size", JStr("lg")))
                    @@ ("weight" :> GetOr(spec, "weight", JStr("semibold")))
                    @@ ("color" :> (IF InValidColors(color) THEN color
                                    ELSE JStr("primary"))))

VALID_DIRECTIONS == {"row", "col"}

\* the aliases alone, without the entries of the canonical values
direction_mapping_AliasesOnly ==
    [column |-> "col", horizontal |-> "row", vertical |-> "col"]

direction_mapping ==
    [column |-> "col", row |-> "row", col |-> "col", horizontal |-> "row",
     vertical |-> "col"]

_parse_box(spec) ==
    LET kids == parse_children(spec)
        direction == GetOr(spec, "direction", JStr("col"))
    IN  IF ~kids.ok THEN kids.exc
        ELSE IF Unhashable(direction) THEN UnhashableError(direction)
        ELSE LET mapped0 == IF direction.k = "str" /\ direction.v \in DOMAIN direction_mapping
                            THEN direction_mapping[direction.v]
                            ELSE "col"
                 mapped_direction == IF mapped0 \notin VALID_DIRECTIONS THEN "col" ELSE mapped0
             IN  Node("Box",
                      ("padding" :> GetOr(spec, "padding", JNum(0)))
                        @@ ("gap" :> GetOr(spec, "gap", JNum(0)))
                        @@ ("direction" :> JStr(mapped_direction))
                        @@ ("align" :> GetOr(spec, "align", JStr("start")))
                        @@ ("justify" :> GetOr(spec, "justify", JStr("start")))
                        @@ ("background" :> GetOr(spec, "background", JNull))
                        @@ ("radius" :> GetOr(spec, "radius", JNull))
                        @@ ("children" :> kids.items))

VALID_VARIANTS == {"solid", "soft", "outline", "ghost"}

variant_mapping ==
    [primary |-> "solid", secondary |-> "outline", tertiary |-> "ghost",
     outline |-> "outline", solid |-> "solid", soft |-> "soft", ghost |-> "ghost"]

_parse_button(spec) ==
    LET variant == GetOr(spec, "variant", JStr("solid"))
    IN  IF Unhashable(variant) THEN UnhashableError(variant)
        ELSE LET mapped0 == IF variant.k = "str" /\ variant.v \in DOMAIN variant_mapping
                            THEN variant_mapping[variant.v]
                            ELSE "solid"
                 mapped_variant == IF mapped0 \notin VALID_VARIANTS THEN "solid" ELSE mapped0
             IN  Node("Button",
                      ("label" :> GetOr(spec, "label", JStr("Button")))
                        @@ ("variant" :> JStr(mapped_variant))
                        @@ ("size" :> GetOr(spec, "size", JStr("md")))
                        @@ (IF Has(spec, "action")
                            THEN ("onClickAction" :> Get(spec, "action"))
                            ELSE NoKwargs))

\* _parse_divider that paints the filler with the colour of the spec
_parse_divider_Colored(spec) ==
    Node("Box",
         ("padding" :> JObj(<< <<"top", JNum(2)>>, <<"bottom", JNum(2)>> >>))
           @@ ("children" :>
                 <<Node("Box", ("height" :> JNum(1))
                                 @@ ("background" :> GetOr(spec, "color",
                                                           JStr("surface-tertiary")))
                                 @@ ("width" :> JStr("100%")))>>))

_parse_divider(spec) ==
    Node("Box",
         ("padding" :> JObj(<< <<"top", JNum(2)>>, <<"bottom", JNum(2)>> >>))
           @@ ("children" :>
                 <<Node("Box", ("height" :> JNum(1))
                                 @@ ("background" :> JStr("surface-tertiary"))
                                 @@ ("width" :> JStr("100%")))>>))

_parse_caption(spec) ==
    LET color == GetOr(spec, "color", JNull)
    IN  IF color.k # "null" /\ Unhashable(color) THEN UnhashableError(color)
        ELSE Node("Caption",
                  ("value" :> GetOr(spec, "value", JStr("")))
                    @@ ("color" :> (IF color.k = "null" THEN JStr("tertiary")
                                    ELSE IF ~InValidColors(color) THEN JStr("tertiary")
                                    ELSE color))
                    @@ ("size" :> GetOr(spec, "size", JStr("sm")))
                    @@ ("weight" :> GetOr(spec, "weight", JStr("normal")))
                    @@ Optional(spec, {"textAlign", "truncate", "maxLines"}))

_parse_image(spec) ==
    Node("Image",
         ("src" :> GetOr(spec, "src", JStr("")))
           @@ ("alt" :> GetOr(spec, "alt", JStr("Image")))
           @@ Optional(spec, {"fit", "position", "radius", "frame", "flush",
                              "height", "width", "size", "minHeight", "minWidth",
                              "minSize", "maxHeight", "maxWidth", "maxSize",
                              "margin", "background", "aspectRatio", "flex"}))

_parse_spacer(spec) == Node("Spacer", Optional(spec, {"minSize"}))

_parse_datepicker(spec) ==
    Node("DatePicker",
         ("name" :> GetOr(spec, "name", JStr("date")))
           @@ ("placeholder" :> GetOr(spec, "placeholder", JStr("Select date")))
           @@ Optional(spec, {"onChangeAction", "defaultValue", "min", "max",
                              "variant", "size", "side", "align", "pill", "block",
                              "clearable", "disabled"}))

_parse_select(spec) ==
    Node("Select",
         ("name" :> GetOr(spec, "name", JStr("select")))
           @@ ("options" :> GetOr(spec, "options", JArr(<<>>)))
           @@ ("placeholder" :> GetOr(spec, "placeholder", JStr("Select option")))
           @@ Optional(spec, {"onChangeAction", "defaultValue", "variant", "size",
                              "pill", "block", "clearable", "disabled"}))

\* an unknown type compiled to nothing instead of a diagnostic Text
UnknownWidget_Dropped(widget_type) == None

\* the Text that stands for a node of unknown type
UnknownWidget(widget_type) ==
    Node("Text",
         ("value" :> JStr("Unknown widget type: " \o PyStr(widget_type)))
           @@ ("color" :> JStr("tertiary"))
           @@ ("size" :> JStr("sm")))

_parse_widget_component(spec) ==
    IF ~IsDict(spec) \/ ~Has(spec, "type") THEN None
    ELSE LET widget_type == Get(spec, "type")
         IN  CASE widget_type = JStr("Card") -> _parse_card(spec)
               [] widget_type = JStr("Row") -> _parse_row(spec)
               [] widget_type = JStr("Col") -> _parse_col(spec)
               [] widget_type = JStr("Text") -> _parse_text(spec)
               [] widget_type = JStr("Title") -> _parse_title(spec)
               [] widget_type = JStr("Box") -> _parse_box(spec)
               [] widget_type = JStr("Button") -> _parse_button(spec)
               [] widget_type = JStr("Divider") -> _parse_divider(spec)
               [] widget_type = JStr("Caption") -> _parse_caption(spec)
               [] widget_type = JStr("Image") -> _parse_image(spec)
               [] widget_type = JStr("Spacer") -> _parse_spacer(spec)
               [] widget_type = JStr("DatePicker") -> _parse_datepicker(spec)
               [] widget_type = JStr("Select") -> _parse_select(spec)
               [] OTHER -> UnknownWidget(widget_type)

\* the except branch with the padding of the wrapper Card
ErrorCard_WrapperPadding(key, e) ==
    Node("Card",
         ("key" :> JStr(key))
           @@ ("padding" :> JNum(0))
           @@ ("children" :>
                 <<Node("Text",
                        ("value" :> JStr("Error rendering widget: " \o e.msg))
                          @@ ("color" :> JStr("error"))
                          @@ ("weight" :> JStr("medium")))>>))

\* the except branch with the styling of the unknown-type leaf
ErrorCard_Tertiary(key, e) ==
    Node("Card",
         ("key" :> JStr(key))
           @@ ("padding" :> JNum(4))
           @@ ("children" :>
                 <<Node("Text",
                        ("value" :> JStr("Error rendering widget: " \o e.msg))
                          @@ ("color" :> JStr("tertiary"))
                          @@ ("size" :> JStr("sm")))>>))

\* the Card the except branch returns for an exception e
ErrorCard(key, e) ==
    Node("Card",
         ("key" :> JStr(key))
           @@ ("padding" :> JNum(4))
           @@ ("children" :>
                 <<Node("Text",
                        ("value" :> JStr("Error rendering widget: " \o e.msg))
                          @@ ("color" :> JStr("error"))
                          @@ ("weight" :> JStr("medium")))>>))

\* the Card wrapped around a compiled root (or around nothing, for None)
WrapperCard(key, widget) ==
    Node("Card",
         ("key" :> JStr(key))
           @@ ("padding" :> JNum(0))
           @@ ("children" :> (IF IsNone(widget) THEN <<>> ELSE <<widget>>)))

\* render_chatkit_widget_from_json without its except branch
render_chatkit_widget_from_json_NoExcept(data) ==
    LET widget == _parse_widget_component(data.widget_spec)
    IN  IF IsRaise(widget) THEN widget
        ELSE IF widget.type = "Card" THEN widget
        ELSE WrapperCard(data.key, widget)

\* render_chatkit_widget_from_json that never wraps the compiled root
render_chatkit_widget_from_json_NoWrap(data) ==
    LET widget == _parse_widget_component(data.widget_spec)
    IN  IF IsRaise(widget) THEN ErrorCard(data.key, widget)
        ELSE IF IsNone(widget) THEN WrapperCard(data.key, widget)
        ELSE widget

\* render_chatkit_widget_from_json that returns every container root as it is
render_chatkit_widget_from_json_AnyContainer(data) ==
    LET widget == _parse_widget_component(data.widget_spec)
    IN  IF IsRaise(widget) THEN ErrorCard(data.key, widget)
        ELSE IF widget.type \in ContainerTypes THEN widget
        ELSE WrapperCard(data.key, widget)

render_chatkit_widget_from_json(data) ==
    LET widget == _parse_widget_component(data.widget_spec)
    IN  IF IsRaise(widget) THEN ErrorCard(data.key, widget)
        ELSE IF widget.type = "Card" THEN widget
        ELSE WrapperCard(data.key, widget)

(***************************************************************************)
(* app/json_widget.py                                                      *)
(***************************************************************************)
RECURSIVE _render_json_content(_, _, _, _, _)

\* nothing rendered where the depth limit is passed
MaxDepthReached_None == None

\* the leaf rendered where the depth limit is passed
MaxDepthReached ==
    Node("Text",
         ("value" :> JStr("... (max depth reached)"))
           @@ ("color" :> JStr("tertiary"))
           @@ ("size" :> JStr("sm"))
           @@ ("style" :> JStr("italic")))

\* the Text for an empty object ("{}") or an empty array ("[]")
EmptyText(literal) ==
    Node("Text",
         ("value" :> JStr(literal))
           @@ ("color" :> JStr("tertiary"))
           @@ ("size" :> JStr("sm"))
           @@ ("family" :> JStr("mono")))

\* the Box around the rows of an object or an array
ItemsBox(items) ==
    Node("Box",
         ("padding" :> JNum(3))
           @@ ("radius" :> JStr("md"))
           @@ ("background" :> JStr("surface-tertiary"))
           @@ ("children" :> <<Node("Col", ("gap" :> JNum(2))
                                           @@ ("children" :> items))>>))

\* one row: the label in a Box of the given minimum width, the value beside it
ItemRow(label_component, minWidth, value_component) ==
    Node("Row",
         ("gap" :> JNum(2))
           @@ ("align" :> JStr("start"))
           @@ ("children" :>
                 <<Node("Box", ("minWidth" :> JNum(minWidth))
                                 @@ ("children" :> <<label_component>>)),
                   Node("Box", ("flex" :> JStr("1"))
                                 @@ ("children" :> <<value_component>>))>>))

_render_object(obj, depth, max_depth, show_types) ==
    IF Len(obj.v) = 0 THEN EmptyText("{}")
    ELSE ItemsBox(
            [i \in 1..Len(obj.v) |->
                ItemRow(Node("Text",
                             ("value" :> JStr(obj.v[i][1] \o ":"))
                               @@ ("weight" :> JStr("medium"))
                               @@ ("size" :> JStr("sm"))
                               @@ ("color" :> JStr("secondary"))),
                        100,
                        _render_json_content(obj.v[i][2], depth + 1, max_depth,
                                             show_types, obj.v[i][1]))])

\* _render_array that labels its rows from [1]
_render_array_OneBased(arr, depth, max_depth, show_types) ==
    IF Len(arr.v) = 0 THEN EmptyText("[]")
    ELSE ItemsBox(
            [i \in 1..Len(arr.v) |->
                ItemRow(Node("Text",
                             ("value" :> JStr("[" \o IntToStr(i) \o "]"))
                               @@ ("weight" :> JStr("medium"))
                               @@ ("size" :> JStr("sm"))
                               @@ ("color" :> JStr("tertiary"))
                               @@ ("family" :> JStr("mono"))),
                        50,
                        _render_json_content(arr.v[i], depth + 1, max_depth,
                                             show_types,
                                             "item_" \o IntToStr(i - 1)))])

_render_array(arr, depth, max_depth, show_types) ==
    IF Len(arr.v) = 0 THEN EmptyText("[]")
    ELSE ItemsBox(
            [i \in 1..Len(arr.v) |->
                ItemRow(Node("Text",
                             ("value" :> JStr("[" \o IntToStr(i - 1) \o "]"))
                               @@ ("weight" :> JStr("medium"))
                               @@ ("size" :> JStr("sm"))
                               @@ ("color" :> JStr("tertiary"))
                               @@ ("family" :> JStr("mono"))),
                        50,
                        _render_json_content(arr.v[i], depth + 1, max_depth,
                                             show_types,
                                             "item_" \o IntToStr(i - 1)))])

\* PrimitiveStyle that keeps the first 100 characters before the ellipsis
PrimitiveStyle_Keep100(value) ==
    CASE value.k = "null" ->
            [display_value |-> "null", color |-> "tertiary", type_info |-> "null"]
      [] value.k = "bool" ->
            [display_value |-> IF value.v THEN "true" ELSE "false",
             color |-> IF value.v THEN "accent" ELSE "error",
             type_info |-> "boolean"]
      [] value.k \in {"num", "float"} ->
            [display_value |-> PyStr(value), color |-> "success",
             type_info |-> "number"]
      [] value.k = "str" ->
            [display_value |-> IF Len(value.v) > 100
                               THEN "\"" \o SubSeq(value.v, 1, 100) \o "...\""
                               ELSE "\"" \o value.v \o "\"",
             color |-> "primary", type_info |-> "string"]
      [] OTHER ->
            [display_value |-> PyStr(value), color |-> "secondary",
             type_info |-> "unknown"]

\* PrimitiveStyle with the number test before the boolean test: a bool is an
\* int, and is shown as one
PrimitiveStyle_BoolAsNumber(value) ==
    CASE value.k = "null" ->
            [display_value |-> "null", color |-> "tertiary", type_info |-> "null"]
      [] value.k = "bool" ->
            [display_value |-> PyStr(value), color |-> "success",
             type_info |-> "number"]
      [] value.k \in {"num", "float"} ->
            [display_value |-> PyStr(value), color |-> "success",
             type_info |-> "number"]
      [] value.k = "str" ->
            [display_value |-> IF Len(value.v) > 100
                               THEN "\"" \o SubSeq(value.v, 1, 97) \o "...\""
                               ELSE "\"" \o value.v \o "\"",
             color |-> "primary", type_info |-> "string"]
      [] OTHER ->
            [display_value |-> PyStr(value), color |-> "secondary",
             type_info |-> "unknown"]

\* the display text, colour and type tag _render_primitive chooses
PrimitiveStyle(value) ==
    CASE value.k = "null" ->
            [display_value |-> "null", color |-> "tertiary", type_info |-> "null"]
      [] value.k = "bool" ->
            [display_value |-> IF value.v THEN "true" ELSE "false",
             color |-> IF value.v THEN "accent" ELSE "error",
             type_info |-> "boolean"]
      [] value.k \in {"num", "float"} ->
            [display_value |-> PyStr(value), color |-> "success",
             type_info |-> "number"]
      [] value.k = "str" ->
            [display_value |-> IF Len(value.v) > 100
                               THEN "\"" \o SubSeq(value.v, 1, 97) \o "...\""
                               ELSE "\"" \o value.v \o "\"",
             color |-> "primary", type_info |-> "string"]
      [] OTHER ->
            [display_value |-> PyStr(value), color |-> "secondary",
             type_info |-> "unknown"]

_render_primitive(value, show_types, key_name) ==
    LET style == PrimitiveStyle(value)
    IN  Node("Row",
             ("gap" :> JNum(2))
               @@ ("align" :> JStr("center"))
               @@ ("children" :>
                     (<<Node("Text",
                             ("value" :> JStr(style.display_value))
                               @@ ("color" :> JStr(style.color))
                               @@ ("size" :> JStr("sm"))
                               @@ ("family" :> (IF value.k # "null" /\ value.k # "str"
                                                THEN JStr("mono")
                                                ELSE JStr("default"))))>>
                        \o (IF show_types /\ Len(style.type_info) > 0
                            THEN <<Node("Text",
                                        ("value" :> JStr("(" \o style.type_info \o ")"))
                                          @@ ("color" :> JStr("tertiary"))
                                          @@ ("size" :> JStr("xs"))
                                          @@ ("style" :> JStr("italic")))>>
                            ELSE <<>>))))

\* the depth test, off by one: the cutoff at max_depth itself
PastMaxDepth_OffByOne(depth, max_depth) == depth >= max_depth

\* the depth test of _render_json_content
PastMaxDepth_Late(depth, max_depth) == depth > max_depth + 1

PastMaxDepth(depth, max_depth) == depth > max_depth

_render_json_content(value, depth, max_depth, show_types, key_name) ==
    IF PastMaxDepth(depth, max_depth) THEN MaxDepthReached
    ELSE IF value.k = "obj" THEN _render_object(value, depth, max_depth, show_types)
    ELSE IF value.k = "arr" THEN _render_array(value, depth, max_depth, show_types)
    ELSE _render_primitive(value, show_types, key_name)

render_json_widget(data) ==
    LET header ==
            Node("Box",
                 ("padding" :> JNum(4))
                   @@ ("background" :> JStr("surface-secondary"))
                   @@ ("children" :>
                         <<Node("Row",
                                ("justify" :> JStr("between"))
                                  @@ ("align" :> JStr("center"))
                                  @@ ("children" :>
                                        <<Node("Title",
                                               ("value" :> JStr(data.title))
                                                 @@ ("size" :> JStr("lg"))
                                                 @@ ("weight" :> JStr("semibold"))),
                                          Node("Text",
                                               ("value" :> JStr("JSON Data"))
                                                 @@ ("size" :> JStr("xs"))
                                                 @@ ("color" :> JStr("tertiary"))
                                                 @@ ("weight" :> JStr("medium")))>>))>>))
        content == _render_json_content(data.data, 0, data.max_depth, data.show_types, "")
        body ==
            Node("Box",
                 ("padding" :> JNum(4))
                   @@ ("gap" :> JNum(3))
                   @@ ("children" :> <<content>>))
    IN  Node("Card",
             ("key" :> JStr(data.key))
               @@ ("padding" :> JNum(0))
               @@ ("children" :> <<header, body>>))

(***************************************************************************)
(* The plain-text fallbacks: json.dumps(x, indent=2, ensure_ascii=False)   *)
(***************************************************************************)
\* a Python value that is no JSON value and that json.dumps has no encoding
\* for: the set {1}
PyObject == [k |-> "object"]

\* json.dumps raises TypeError on the value, or on a value inside it
RECURSIVE NotSerializable(_)
NotSerializable(j) ==
    CASE j.k = "object" -> TRUE
      [] j.k = "arr" -> \E i \in 1..Len(j.v) : NotSerializable(j.v[i])
      [] j.k = "obj" -> \E i \in 1..Len(j.v) : NotSerializable(j.v[i][2])
      [] OTHER -> FALSE

\* the encoding of one character inside a JSON string (ensure_ascii=False)
JsonEscapeChar(c) ==
    CASE c = "\"" -> "\\\""
      [] c = "\\" -> "\\\\"
      [] c = "\n" -> "\\n"
      [] c = "\t" -> "\\t"
      [] OTHER -> c

RECURSIVE JsonEscape(_)
JsonEscape(s) ==
    IF Len(s) = 0 THEN ""
    ELSE IF Len(s) = 1 THEN JsonEscapeChar(s)
    ELSE LET half == Len(s) \div 2
         IN  JsonEscape(SubSeq(s, 1, half)) \o JsonEscape(SubSeq(s, half + 1, Len(s)))

\* the encoding of a str
JsonQuote(s) == "\"" \o JsonEscape(s) \o "\""

\* the indentation of nesting level n under indent=2
RECURSIVE Indent(_)
Indent(n) == IF n = 0 THEN "" ELSE "  " \o Indent(n - 1)

\* json.dumps(j, indent=2, ensure_ascii=False), for j at nesting level n
RECURSIVE json_dumps(_, _), DumpItems(_, _, _), DumpPairs(_, _, _)
json_dumps(j, n) ==
    CASE j.k = "null" -> "null"
      [] j.k = "bool" -> (IF j.v THEN "true" ELSE "false")
      [] j.k = "num" -> IntToStr(j.v)
      [] j.k = "float" -> PyRepr(j)
      [] j.k = "str" -> JsonQuote(j.v)
      [] j.k = "arr" ->
            IF Len(j.v) = 0 THEN "[]"
            ELSE "[\n" \o DumpItems(j.v, 1, n + 1) \o "\n" \o Indent(n) \o "]"
      [] j.k = "obj" ->
            IF Len(j.v) = 0 THEN "{}"
            ELSE "{\n" \o DumpPairs(j.v, 1, n + 1) \o "\n" \o Indent(n) \o "}"

DumpItems(items, i, n) ==
    IF i > Len(items) THEN ""
    ELSE Indent(n) \o json_dumps(items[i], n)
            \o (IF i < Len(items) THEN ",\n" ELSE "")
            \o DumpItems(items, i + 1, n)

DumpPairs(pairs, i, n) ==
    IF i > Len(pairs) THEN ""
    ELSE Indent(n) \o JsonQuote(pairs[i][1]) \o ": " \o json_dumps(pairs[i][2], n)
            \o (IF i < Len(pairs) THEN ",\n" ELSE "")
            \o DumpPairs(pairs, i + 1, n)

chatkit_widget_copy_text(data) ==
    IF NotSerializable(data.widget_spec)
    THEN data.title \o "\n\nChatKit widget (could not serialize specification)"
    ELSE data.title \o "\n\nWidget Specification:\n" \o json_dumps(data.widget_spec, 0)

\* json_widget_copy_text made from what the widget displays: nothing but the
\* "max depth reached" text when max_depth is below zero
json_widget_copy_text_Displayed(data) ==
    IF NotSerializable(data.data)
    THEN data.title \o "\n\nJSON data (could not serialize for display)"
    ELSE IF data.max_depth < 0
    THEN data.title \o "\n\n... (max depth reached)"
    ELSE data.title \o "\n\n" \o json_dumps(data.data, 0)

json_widget_copy_text(data) ==
    IF NotSerializable(data.data)
    THEN data.title \o "\n\nJSON data (could not serialize for display)"
    ELSE data.title \o "\n\n" \o json_dumps(data.data, 0)

(***************************************************************************)
(* Inputs of the normalizer                                                *)
(***************************************************************************)
Range(f) == {f[x] : x \in DOMAIN f}

\* the type tags _parse_widget_component dispatches on
WidgetTypes ==
    {"Card", "Row", "Col", "Text", "Title", "Box", "Button", "Divider",
     "Caption", "Image", "Spacer", "DatePicker", "Select"}

\* strings passed as widget_type: the widget types, and strings that are none
WidgetTypeInputs == WidgetTypes \cup {"Bogus", "box", "TEXT"}

\* strings passed as param_name: every attribute of the tables, and one that is none
ParamInputs ==
    UNION {DOMAIN CHATKIT_VALIDATION_RULES[t] : t \in DOMAIN CHATKIT_VALIDATION_RULES}
        \cup {"bogus"}

\* strings passed as value: every value of an enumerated allow-list, every
\* alias of the mapping tables, and others
ValueInputs ==
    LET AllowListValues ==
            UNION {UNION {IF CHATKIT_VALIDATION_RULES[t][p].kind = "list"
                          THEN Range(CHATKIT_VALIDATION_RULES[t][p].items)
                          ELSE {} : p \in DOMAIN CHATKIT_VALIDATION_RULES[t]}
                   : t \in DOMAIN CHATKIT_VALIDATION_RULES}
        AliasValues ==
            UNION {DOMAIN PARAMETER_MAPPINGS[m] : m \in DOMAIN PARAMETER_MAPPINGS}
    IN  AllowListValues \cup AliasValues
            \cup {"", "bogus", "Solid", "number", "n", "12", "https://x/y.png"}

(***************************************************************************)
(* Inputs of the tree compiler                                             *)
(***************************************************************************)
\* the longest children list of the generated container specs
MaxChildren == 2

\* how many containers are nested around a generated container spec
MaxNest == 2

O(pairs) == JObj(pairs)
T(name) == <<"type", JStr(name)>>

\* values that are no JSON object, and objects without a type
UntypedSpecs ==
    {JNull, JNum(7), JBool(TRUE), JStr("Text"), JArr(<<O(<<T("Text")>>)>>),
     O(<<>>), O(<< <<"value", JStr("no type")>> >>)}

\* objects whose type is outside the known set
UnknownSpecs ==
    {O(<<T("Bogus")>>), O(<<T("text"), <<"value", JStr("x")>> >>),
     O(<< <<"type", JNum(3)>> >>), O(<< <<"type", JNull>> >>),
     O(<< <<"type", JArr(<<JStr("Card")>>)>> >>)}

TextSpecs ==
    {O(<<T("Text"), <<"value", JStr("hi")>> >>),
     O(<<T("Text")>>),
     O(<<T("Text"), <<"value", JStr("hi")>>, <<"size", JStr("huge")>>,
         <<"weight", JStr("strong")>>, <<"color", JStr("danger")>>,
         <<"style", JStr("italic")>>, <<"width", JNum(80)>>,
         <<"onHover", JStr("x")>> >>),
     O(<<T("Text"), <<"color", JStr("muted")>>, <<"value", JStr("m")>> >>),
     O(<<T("Text"), <<"color", JArr(<<>>)>>, <<"value", JStr("c")>> >>),
     O(<<T("Text"), <<"editable", O(<< <<"placeholder", JStr("name")>> >>)>> >>),
     O(<<T("Text"), <<"editable", O(<< <<"name", JStr("to")>> >>)>> >>),
     O(<<T("Text"), <<"value", JStr("v")>>,
         <<"editable", O(<< <<"placeholder", JStr("name")>> >>)>> >>),
     O(<<T("Text"), <<"value", JStr("")>>,
         <<"editable", O(<< <<"placeholder", JStr("name")>> >>)>> >>),
     O(<<T("Text"), <<"editable", JBool(TRUE)>> >>),
     O(<<T("Text"), <<"value", JStr("v")>>, <<"editable", JBool(TRUE)>> >>)}

OtherLeafSpecs ==
    {O(<<T("Title"), <<"value", JStr("t")>> >>),
     O(<<T("Title"), <<"color", JStr("pink")>>, <<"size", JStr("3xl")>> >>),
     O(<<T("Button"), <<"label", JStr("Go")>>, <<"variant", JStr("primary")>>,
         <<"action", O(<<T("go")>>)>> >>),
     O(<<T("Button"), <<"variant", JStr("link")>>, <<"size", JStr("big")>> >>),
     O(<<T("Button"), <<"variant", O(<<>>)>> >>),
     O(<<T("Divider")>>),
     O(<<T("Divider"), <<"flush", JBool(TRUE)>>, <<"color", JStr("red")>> >>),
     O(<<T("Divider"), <<"padding", JNum(9)>>, <<"height", JNum(5)>>,
         <<"background", JStr("blue")>>, <<"width", JStr("50%")>>,
         <<"children", JArr(<<O(<<T("Text")>>)>>)>> >>),
     O(<<T("Caption"), <<"value", JStr("c")>>, <<"color", JStr("pink")>>,
         <<"textAlign", JStr("middle")>> >>),
     O(<<T("Image"), <<"src", JStr("https://x/y.png")>>, <<"fit", JStr("stretch")>>,
         <<"title", JStr("dropped")>> >>),
     O(<<T("Spacer"), <<"minSize", JNum(8)>> >>),
     O(<<T("DatePicker"), <<"name", JStr("d")>>, <<"variant", JStr("solid")>> >>),
     O(<<T("Select"), <<"options", JArr(<<>>)>>, <<"size", JStr("huge")>> >>)}

LeafSpecs == UntypedSpecs \cup UnknownSpecs \cup TextSpecs \cup OtherLeafSpecs

\* the entries the generated children lists are made of
ChildPool ==
    {JNum(7),
     O(<< <<"value", JStr("no type")>> >>),
     O(<<T("Bogus")>>),
     O(<<T("Text"), <<"value", JStr("hi")>> >>),
     O(<<T("Text"), <<"editable", JBool(TRUE)>> >>)}

\* the values given as `children`: lists of entries, and values of the wrong kind
ChildrenValues ==
    {JArr(c) : c \in UNION {[1..m -> ChildPool] : m \in 0..MaxChildren}}
        \cup {JNum(5), JNull, JStr("ab"), O(<<T("Text")>>)}

\* ten typed children, three of them of unknown type
TenChildren ==
    JArr([i \in 1..10 |->
            IF i \in {2, 5, 9} THEN O(<<T("Bogus")>>)
            ELSE O(<<T("Text"), <<"value", JStr("hi")>> >>)])

\* the confirm / cancel descriptors of a Card, in either key order
ConfirmCancelPairs ==
    LET confirm == <<"confirm", O(<< <<"label", JStr("Send")>>,
                                     <<"action", O(<<T("send")>>)>> >>)>>
        cancel == <<"cancel", O(<< <<"action", O(<<T("discard")>>)>> >>)>>
    IN  {<<>>, <<confirm>>, <<cancel>>, <<confirm, cancel>>, <<cancel, confirm>>,
         << <<"confirm", O(<<>>)>>, <<"cancel", O(<<>>)>> >>,
         << <<"confirm", JStr("yes")>> >>,
         << <<"cancel", JNull>>, confirm >>}

\* the keys that come with `children` in a container spec
ContainerExtras(type) ==
    CASE type = "Card" -> ConfirmCancelPairs
      [] type = "Box" -> {<< <<"direction", JStr("horizontal")>> >>,
                          << <<"direction", JStr("diagonal")>> >>}
      [] type = "Row" -> {<<>>, << <<"justify", JStr("middle")>> >>}
      [] OTHER -> {<<>>}

\* container specs whose children are leaves
FlatContainerSpecs ==
    UNION {UNION {
        {O(<<T(type)>> \o extra)}
            \cup {O(<<T(type), <<"children", c>> >> \o extra) : c \in ChildrenValues}
            \cup {O(extra \o << <<"children", c>>, T(type) >>) : c \in {TenChildren}}
        : extra \in ContainerExtras(type)} : type \in ContainerTypes}

\* a container around the spec s: a Box with s alone, and a Card with
\* buttons where s follows an entry that is no object
Wrap(s) ==
    {O(<<T("Box"), <<"children", JArr(<<s>>)>> >>),
     O(<<T("Card"), <<"children", JArr(<<JNum(7), s>>)>>,
         <<"cancel", O(<<>>)>>, <<"confirm", O(<<>>)>> >>)}

\* container specs nested n deep around a flat container
RECURSIVE NestedSpecs(_)
NestedSpecs(n) ==
    IF n = 0 THEN FlatContainerSpecs
    ELSE LET inner == NestedSpecs(n - 1)
         IN  inner \cup UNION {Wrap(s) : s \in inner}

\* Box specs with one child, with each value of direction and with none; the
\* values given as `direction` are the canonical values, the aliases, other
\* strings and values that are no string
BoxDirectionSpecs ==
    LET kids == <<"children", JArr(<<O(<<T("Text"), <<"value", JStr("hi")>> >>)>>)>>
        values ==
            {JStr(d) : d \in {"row", "col", "column", "horizontal", "vertical",
                              "diagonal", "Row", ""}}
                \cup {JNull, JNum(1), JBool(TRUE), JArr(<<JStr("row")>>)}
    IN  {O(<<T("Box"), kids>>)}
          \cup {O(<<T("Box"), <<"direction", d>>, kids>>) : d \in values}

WidgetSpecs == LeafSpecs \cup BoxDirectionSpecs \cup NestedSpecs(MaxNest - 1)

DataKeys == {"chatkit_widget", "chatkit_4711"}

\* the calls of render_chatkit_widget_from_json(data)
RenderCalls ==
    {[op |-> "render_chatkit_widget_from_json",
      data |-> [title |-> "Demo", widget_spec |-> ws, key |-> key]] :
        ws \in WidgetSpecs, key \in DataKeys}

\* the calls of _parse_widget_component(spec)
ParseCalls ==
    {[op |-> "_parse_widget_component", spec |-> ws] : ws \in WidgetSpecs}

(***************************************************************************)
(* Inputs of the generic-data renderer                                     *)
(***************************************************************************)
\* how deep the generated JSON data nests
MaxDataNest == 5

\* the largest max_depth given, and how far below zero max_depth goes
MaxMaxDepth == 3
MaxNegDepth == 2

JsonLeaves ==
    {JNull, JBool(TRUE), JBool(FALSE), JNum(42), JStr("hi"), JObj(<<>>), JArr(<<>>)}

\* JSON values nested at most n deep
RECURSIVE JsonData(_)
JsonData(n) ==
    IF n = 0 THEN JsonLeaves
    ELSE LET inner == JsonData(n - 1)
         IN  inner
               \cup {JObj(<< <<"a", d>>, <<"b", JNum(1)>> >>) : d \in inner}
               \cup {JArr(<<d>>) : d \in inner}

\* the string of n characters 0123456789012...
StrOfLen(n) ==
    LET forty == "0123456789012345678901234567890123456789"
    IN  SubSeq(forty \o forty \o forty \o forty, 1, n)

\* lengths around the 100 characters the display keeps
StringLengths == {0, 97, 99, 100, 101, 102, 120}

\* strings of these lengths, at top level and as the first value of an object
JsonStringData ==
    {JStr(StrOfLen(n)) : n \in StringLengths}
        \cup {JObj(<< <<"note", JStr(StrOfLen(n))>>, <<"b", JNum(1)>> >>) :
                 n \in StringLengths}
        \cup {JStr("say \"hi\"\n")}

\* a float and a value that is no JSON value, at top level and as the first
\* value of an object
JsonPrimitiveData ==
    {JFloat(15), JFloat(20), PyObject,
     JObj(<< <<"ratio", JFloat(15)>>, <<"b", JNum(1)>> >>),
     JObj(<< <<"seen", PyObject>>, <<"b", JNum(1)>> >>)}

\* objects of three keys that are not in alphabetical order and arrays of
\* three items, two of them equal, alone and inside one another
JsonRowData ==
    LET obj3(x) == JObj(<< <<"zeta", JNum(1)>>, <<"alpha", x>>, <<"mid", JNum(1)>> >>)
        arr3(x) == JArr(<<JStr("hi"), x, JStr("hi")>>)
    IN  {obj3(JNull), arr3(JNull), obj3(arr3(JNum(7))), arr3(obj3(JNum(7))),
         obj3(obj3(JNum(7))), arr3(arr3(JArr(<<>>)))}

\* the calls of render_json_widget(data)
JsonCalls ==
    {[op |-> "render_json_widget",
      data |-> [title |-> "Demo", data |-> d, key |-> "json_widget",
                max_depth |-> m, show_types |-> st]] :
        d \in JsonData(MaxDataNest) \cup JsonStringData \cup JsonPrimitiveData
                \cup JsonRowData,
        m \in (0 - MaxNegDepth)..MaxMaxDepth, st \in BOOLEAN}

(***************************************************************************)
(* Inputs of the plain-text fallbacks                                      *)
(***************************************************************************)
\* the titles of the widgets
Titles == {"Demo", ""}

\* a spec holding a value json.dumps cannot encode
UnserializableSpecs == {O(<<T("Text"), <<"value", PyObject>> >>)}

\* the calls of chatkit_widget_copy_text(data)
ChatkitCopyCalls ==
    {[op |-> "chatkit_widget_copy_text",
      data |-> [title |-> t, widget_spec |-> ws, key |-> "chatkit_widget"]] :
        t \in Titles,
        ws \in LeafSpecs \cup FlatContainerSpecs \cup UnserializableSpecs}

\* a string longer than the 100 characters the display keeps
LongString ==
    "0123456789012345678901234567890123456789012345678901234567890123456789"
        \o "0123456789012345678901234567890"

\* how deep the data given to json_widget_copy_text nests
MaxCopyNest == 2

JsonCopyData ==
    JsonData(MaxCopyNest)
        \cup {JStr(LongString), JObj(<< <<"note", JStr(LongString)>> >>),
              JStr("say \"hi\"\n"), PyObject, JArr(<<JNum(1), PyObject>>)}

\* the calls of json_widget_copy_text(data)
JsonCopyCalls ==
    {[op |-> "json_widget_copy_text",
      data |-> [title |-> t, data |-> d, key |-> "json_widget",
                max_depth |-> m, show_types |-> st]] :
        t \in Titles, d \in JsonCopyData,
        m \in (0 - MaxNegDepth)..MaxMaxDepth, st \in BOOLEAN}

(***************************************************************************)
(* State machine.  One behaviour is one call: the initial state holds the  *)
(* operation and its arguments (pc = "ready"), the operation's action      *)
(* computes what it returns (pc = "done").                                 *)
(***************************************************************************)
\* the calls of validate_and_map_parameter(widget_type, param_name, value)
ValidateCalls ==
    {[op |-> "validate_and_map_parameter",
      widget_type |-> wt, param_name |-> pn, value |-> v] :
        wt \in WidgetTypeInputs, pn \in ParamInputs, v \in ValueInputs}

\* the state before a call: nothing returned yet, the tables as loaded
Ready(calls) ==
    /\ call \in calls
    /\ pc = "ready"
    /\ ret = [type |-> "None"]
    /\ rules = CHATKIT_VALIDATION_RULES
    /\ mappings = PARAMETER_MAPPINGS
    /\ stack = <<>>
    /\ streamed = <<>>

InitValidate == Ready(ValidateCalls)

Validate_Memoizing ==
    /\ pc \in {"ready", "again"}
    /\ call.op = "validate_and_map_parameter"
    /\ ret' = validate_and_map_parameter(call.widget_type, call.param_name, call.value)
    /\ pc' = (IF pc = "again" THEN "repeated" ELSE "done")
    /\ mappings' = [m \in DOMAIN mappings |->
                       IF m = Lower(call.widget_type) \o "_" \o call.param_name
                       THEN (call.value :> ret') @@ mappings[m]
                       ELSE mappings[m]]
    /\ UNCHANGED <<call, rules, stack, streamed>>

Validate ==
    /\ pc \in {"ready", "again"}
    /\ call.op = "validate_and_map_parameter"
    /\ ret' = validate_and_map_parameter(call.widget_type, call.param_name, call.value)
    /\ pc' = (IF pc = "again" THEN "repeated" ELSE "done")
    /\ UNCHANGED <<call, rules, mappings, stack, streamed>>

InitWidget == Ready(RenderCalls \cup ParseCalls)

RenderChatkitWidgetFromJson ==
    /\ pc \in {"ready", "again"}
    /\ call.op = "render_chatkit_widget_from_json"
    /\ ret' = render_chatkit_widget_from_json(call.data)
    /\ pc' = (IF pc = "again" THEN "repeated" ELSE "done")
    /\ UNCHANGED <<call, rules, mappings, stack, streamed>>

ParseWidgetComponent ==
    /\ pc \in {"ready", "again"}
    /\ call.op = "_parse_widget_component"
    /\ ret' = _parse_widget_component(call.spec)
    /\ pc' = (IF pc = "again" THEN "repeated" ELSE "done")
    /\ UNCHANGED <<call, rules, mappings, stack, streamed>>

NextWidget == RenderChatkitWidgetFromJson \/ ParseWidgetComponent

SpecWidget == InitWidget /\ [][NextWidget]_vars

InitJson == Ready(JsonCalls)

RenderJsonWidget ==
    /\ pc \in {"ready", "again"}
    /\ call.op = "render_json_widget"
    /\ ret' = render_json_widget(call.data)
    /\ pc' = (IF pc = "again" THEN "repeated" ELSE "done")
    /\ UNCHANGED <<call, rules, mappings, stack, streamed>>

SpecJson == InitJson /\ [][RenderJsonWidget]_vars

InitCopy == Ready(ChatkitCopyCalls \cup JsonCopyCalls)

ChatkitWidgetCopyText ==
    /\ pc \in {"ready", "again"}
    /\ call.op = "chatkit_widget_copy_text"
    /\ ret' = chatkit_widget_copy_text(call.data)
    /\ pc' = (IF pc = "again" THEN "repeated" ELSE "done")
    /\ UNCHANGED <<call, rules, mappings, stack, streamed>>

JsonWidgetCopyText ==
    /\ pc \in {"ready", "again"}
    /\ call.op = "json_widget_copy_text"
    /\ ret' = json_widget_copy_text(call.data)
    /\ pc' = (IF pc = "again" THEN "repeated" ELSE "done")
    /\ UNCHANGED <<call, rules, mappings, stack, streamed>>

NextCopy == ChatkitWidgetCopyText \/ JsonWidgetCopyText

SpecCopy == InitCopy /\ [][NextCopy]_vars

SpecValidate == InitValidate /\ [][Validate]_vars

(***************************************************************************)
(* Calls in sequence.  The process that imported the modules calls the     *)
(* operations one after another: after a call has returned, the next call  *)
(* is either a new one (pc = "ready") or the same one again (pc = "again", *)
(* the earlier result kept in ret until the repeated call has returned,    *)
(* pc = "repeated").  The tables are loaded once, before the first call.   *)
(***************************************************************************)
\* the calls made in sequence: a few of every operation
SequenceCalls ==
    {c \in ValidateCalls :
        /\ c.widget_type \in {"Box", "Text", "Bogus"}
        /\ c.param_name \in {"direction", "size"}
        /\ c.value \in {"horizontal", "row", "bogus"}}
    \cup {c \in RenderCalls :
        c.data.key = "chatkit_widget" /\ c.data.widget_spec \in TextSpecs \cup UntypedSpecs}
    \cup {c \in ParseCalls : c.spec \in TextSpecs \cup UntypedSpecs}
    \cup {c \in JsonCalls :
        /\ c.data.data \in JsonRowData
        /\ c.data.title = "Demo" /\ c.data.show_types /\ c.data.max_depth \in {1, 3}}
    \cup {c \in ChatkitCopyCalls :
        c.data.title = "Demo" /\ c.data.widget_spec \in TextSpecs \cup UnserializableSpecs}
    \cup {c \in JsonCopyCalls :
        /\ c.data.data \in {JStr(LongString), PyObject}
        /\ c.data.title = "Demo" /\ c.data.show_types /\ c.data.max_depth = 3}

\* the caller makes another call, with other arguments or another operation
CallAgain ==
    /\ pc \in {"done", "repeated"}
    /\ call' \in SequenceCalls
    /\ pc' = "ready"
    /\ ret' = [type |-> "None"]
    /\ UNCHANGED <<rules, mappings, stack, streamed>>

\* the caller makes the same call once more
RepeatCall ==
    /\ pc \in {"done", "repeated"}
    /\ pc' = "again"
    /\ UNCHANGED <<call, ret, rules, mappings, stack, streamed>>

NextSequence ==
    \/ Validate
    \/ RenderChatkitWidgetFromJson
    \/ ParseWidgetComponent
    \/ RenderJsonWidget
    \/ ChatkitWidgetCopyText
    \/ JsonWidgetCopyText
    \/ CallAgain
    \/ RepeatCall

InitSequence == Ready(SequenceCalls)

SpecSequence == InitSequence /\ [][NextSequence]_vars

(***************************************************************************)
(* The recursion of the generic-data renderer, one activation at a time.   *)
(* stack holds the activations of _render_json_content that have been     *)
(* entered and have not returned, the outermost first: the value an        *)
(* activation renders, its depth, and the entry of the value that the loop *)
(* of _render_object or _render_array renders next.                        *)
(***************************************************************************)
\* how deep the data of the step-by-step rendering nests
MaxRecursionNest == 4

\* the calls of render_json_widget rendered one activation at a time
RecursionCalls ==
    {c \in JsonCalls :
        c.data.show_types /\ c.data.data \in JsonData(MaxRecursionNest) \cup JsonRowData}

\* the values _render_object and _render_array loop over
LoopEntries(value) ==
    IF value.k = "obj" THEN [i \in 1..Len(value.v) |-> value.v[i][2]]
    ELSE IF value.k = "arr" THEN value.v
    ELSE <<>>

\* the innermost activation
Top == stack[Len(stack)]

\* render_json_widget calls _render_json_content(data.data, depth=0, ...)
EnterRenderJsonWidget ==
    /\ pc = "ready"
    /\ call.op = "render_json_widget"
    /\ pc' = "rendering"
    /\ stack' = <<[value |-> call.data.data, depth |-> 0, next |-> 1]>>
    /\ UNCHANGED <<call, ret, rules, mappings, streamed>>

\* the loop of the innermost activation calls _render_json_content for its
\* next entry, at depth + 1
Recurse ==
    /\ pc = "rendering"
    /\ stack # <<>>
    /\ ~PastMaxDepth(Top.depth, call.data.max_depth)
    /\ Top.next <= Len(LoopEntries(Top.value))
    /\ stack' = Append([stack EXCEPT ![Len(stack)].next = @ + 1],
                       [value |-> LoopEntries(Top.value)[Top.next],
                        depth |-> Top.depth + 1, next |-> 1])
    /\ UNCHANGED <<call, ret, pc, rules, mappings, streamed>>

\* the innermost activation returns: past the maximum depth, a primitive,
\* or an object or array whose loop is over
Return ==
    /\ pc = "rendering"
    /\ stack # <<>>
    /\ \/ PastMaxDepth(Top.depth, call.data.max_depth)
       \/ Top.next > Len(LoopEntries(Top.value))
    /\ stack' = SubSeq(stack, 1, Len(stack) - 1)
    /\ UNCHANGED <<call, ret, pc, rules, mappings, streamed>>

\* the outermost activation has returned: render_json_widget returns the Card
FinishRenderJsonWidget ==
    /\ pc = "rendering"
    /\ stack = <<>>
    /\ ret' = render_json_widget(call.data)
    /\ pc' = "done"
    /\ UNCHANGED <<call, rules, mappings, stack, streamed>>

NextRecursion ==
    \/ EnterRenderJsonWidget
    \/ Recurse
    \/ Return
    \/ FinishRenderJsonWidget

\* the interpreter runs a call to its end: no step waits for anything
InitRecursion == Ready(RecursionCalls)

SpecRecursion == InitRecursion /\ [][NextRecursion]_vars /\ WF_vars(NextRecursion)

(***************************************************************************)
(* app/chat.py: the render_chatkit_widget tool, statement by statement.    *)
(* streamed holds what ctx.context.stream_widget has sent to the client.   *)
(***************************************************************************)
\* the values the widget_json texts of the calls encode
ToolSpecs ==
    {O(<<T("Text"), <<"value", JStr("hi")>> >>),
     O(<<T("Card"), <<"children", JArr(<<O(<<T("Text")>>)>>)>> >>),
     O(<<T("Box"), <<"children", JArr(<<>>)>> >>),
     O(<<T("Video")>>),
     O(<< <<"children", JArr(<<>>)>> >>),
     O(<<>>),
     JArr(<<>>), JArr(<<O(<<T("Text")>>)>>),
     JNum(42), JStr("Text"), JNull, JBool(TRUE)}

\* the calls of render_chatkit_widget(ctx, title, widget_json): the texts
\* are encodings of values and two texts that are not JSON; hash is
\* hash(widget_json) % 10000, which depends on the process's hash seed and
\* is any value of 0..9999
ToolCalls ==
    {[op |-> "render_chatkit_widget", title |-> t, widget_json |-> w, hash |-> h] :
        t \in Titles,
        w \in {json_dumps(v, 0) : v \in ToolSpecs} \cup {"", "nope"},
        h \in {0, 4711, 9999}}

\* the text is the JSON encoding of a value
ParsesAsJson(text) == \E v \in ToolSpecs : json_dumps(v, 0) = text

\* json.loads(text): the value whose encoding the text is, or JSONDecodeError
json_loads(text) ==
    IF ParsesAsJson(text)
    THEN CHOOSE v \in ToolSpecs : json_dumps(v, 0) = text
    ELSE Raise("JSONDecodeError", "Expecting value: line 1 column 1 (char 0)")

\* widget_spec, once json.loads has returned
widget_spec == json_loads(call.widget_json)

\* ChatKitWidgetData(title=title, widget_spec=widget_spec, key=f"chatkit_{...}")
widget_data ==
    [title |-> call.title, widget_spec |-> widget_spec,
     key |-> "chatkit_" \o IntToStr(call.hash)]

\* the dict the tool returns; widget_spec.get and `in` need a dict, a str
\* has `in` but no .get, and any other value has neither
ToolResult ==
    IF IsDict(widget_spec)
    THEN [type |-> "dict", title |-> call.title, status |-> "success",
          widget_type |-> GetOr(widget_spec, "type", JStr("unknown")),
          has_children |-> Has(widget_spec, "children")]
    ELSE NoGet(widget_spec)

\* widget_spec = json.loads(widget_json), or the JSONDecodeError handler
ToolParseJson ==
    /\ pc = "ready"
    /\ call.op = "render_chatkit_widget"
    /\ IF ParsesAsJson(call.widget_json)
       THEN pc' = "parsed" /\ ret' = ret
       ELSE pc' = "done" /\ ret' = Raise("ValueError", "Invalid widget JSON: " \o widget_spec.msg)
    /\ UNCHANGED <<call, rules, mappings, stack, streamed>>

\* widget = render_chatkit_widget_from_json(widget_data);
\* copy_text = chatkit_widget_copy_text(widget_data)
ToolRender ==
    /\ pc = "parsed"
    /\ pc' = "rendered"
    /\ UNCHANGED <<call, ret, rules, mappings, stack, streamed>>

\* await ctx.context.stream_widget(widget, copy_text=copy_text)
ToolStreamWidget ==
    /\ pc = "rendered"
    /\ streamed' = Append(streamed,
                          [widget |-> render_chatkit_widget_from_json(widget_data),
                           copy_text |-> chatkit_widget_copy_text(widget_data)])
    /\ pc' = "streamed"
    /\ UNCHANGED <<call, ret, rules, mappings, stack>>

\* return {...}: the dict is built and returned
ToolReturn ==
    /\ pc = "streamed"
    /\ ~IsRaise(ToolResult)
    /\ ret' = ToolResult
    /\ pc' = "done"
    /\ UNCHANGED <<call, rules, mappings, stack, streamed>>

\* building the dict raises, `except Exception` re-raises it as ValueError
ToolFail ==
    /\ pc = "streamed"
    /\ IsRaise(ToolResult)
    /\ ret' = Raise("ValueError", "Error rendering ChatKit widget: " \o ToolResult.msg)
    /\ pc' = "done"
    /\ UNCHANGED <<call, rules, mappings, stack, streamed>>

NextTool ==
    \/ ToolParseJson
    \/ ToolRender
    \/ ToolStreamWidget
    \/ ToolReturn
    \/ ToolFail

InitTool == Ready(ToolCalls)

SpecTool == InitTool /\ [][NextTool]_vars

\* any one call of any of the operations
Init == InitValidate \/ InitWidget \/ InitJson \/ InitCopy \/ InitTool

Next == Validate \/ NextWidget \/ RenderJsonWidget \/ NextCopy \/ NextRecursion \/ NextTool

Spec == Init /\ [][Next]_vars

(***************************************************************************)
(* Properties of the normalizer                                            *)
(***************************************************************************)
\* a call of validate_and_map_parameter has returned
IsValidateCall == call.op = "validate_and_map_parameter" /\ pc = "done"

\* the (type, attribute) of the call has an enumerated allow-list
HasAllowList ==
    /\ IsValidateCall
    /\ valid_values(call.widget_type, call.param_name).kind = "list"
    /\ Len(valid_values(call.widget_type, call.param_name).items) > 0

AllowList == Range(valid_values(call.widget_type, call.param_name).items)

\* C8: No raw passthrough of invalid enums: for a widget type and attribute
\* whose rule is an enumerated allow-list, whatever the input string,
\* validate_and_map_parameter returns a member of that allow-list.
C8_NoRawPassthrough == HasAllowList => ret \in AllowList

\* a value outside the allow-list, with no alias table, is replaced by the
\* first member of the allow-list
C8_Witness ==
    /\ HasAllowList
    /\ call.value \notin AllowList
    /\ mapping_key(call.widget_type, call.param_name) \notin DOMAIN mappings
    /\ ret \in AllowList

\* the call is on a (type, attribute) that PARAMETER_MAPPINGS has a table for
HasAliasTable ==
    /\ IsValidateCall
    /\ call.widget_type \in WidgetTypes
    /\ mapping_key(call.widget_type, call.param_name) \in DOMAIN mappings

AliasTable == mappings[mapping_key(call.widget_type, call.param_name)]

\* C9: Alias closure: for every alias -> canonical pair of PARAMETER_MAPPINGS,
\* validate_and_map_parameter on the alias returns exactly the canonical
\* value, and on the canonical value returns the canonical value itself.
C9_AliasClosure ==
    HasAliasTable =>
        /\ (call.value \in DOMAIN AliasTable => ret = AliasTable[call.value])
        /\ (call.value \in Range(AliasTable) => ret = call.value)

\* an alias that is not the table's default entry was mapped to a canonical
\* value other than the default one
C9_Witness ==
    /\ HasAliasTable
    /\ call.value \in DOMAIN AliasTable
    /\ call.value # "default"
    /\ ret = AliasTable[call.value]
    /\ ret # AliasTable["default"]

\* a canonical value of an alias table was given and came back unchanged
C9_WitnessCanonical ==
    /\ HasAliasTable
    /\ call.value \in Range(AliasTable)
    /\ ret = call.value

HasDescriptiveRule ==
    /\ IsValidateCall
    /\ valid_values(call.widget_type, call.param_name).kind = "str"

\* C11: For non-enumerated attributes (those whose rule is not an allow-list:
\* numbers, free text, URLs, e.g. Card padding/background, Image src, Spacer
\* minSize), validate_and_map_parameter returns the supplied value unchanged
\* for every input value.
C11_NonEnumeratedUnchanged == HasDescriptiveRule => ret = call.value

(***************************************************************************)
(* Properties of the tree compiler                                         *)
(***************************************************************************)
\* render_chatkit_widget_from_json has returned (or let an exception escape)
IsRenderCall == call.op = "render_chatkit_widget_from_json" /\ pc = "done"

\* _parse_widget_component has returned (or raised)
IsParseCall == call.op = "_parse_widget_component" /\ pc = "done"

\* what _parse_widget_component makes of the spec given to the render call
CompiledRoot == _parse_widget_component(call.data.widget_spec)

\* x is a component, neither None nor a raised exception
IsComponent(x) == ~IsRaise(x) /\ ~IsNone(x)

\* the JSON value is an object carrying a `type` key
IsTyped(j) == IsDict(j) /\ Has(j, "type")

\* the JSON value is an object whose type is the given widget type
HasType(j, type) == IsTyped(j) /\ Get(j, "type") = JStr(type)

\* the JSON value is an object whose type is outside the known set
IsUnknownType(j) == IsTyped(j) /\ \A t \in WidgetTypes : Get(j, "type") # JStr(t)

\* x is the one leaf Text that reports the unknown type of the spec j
IsUnknownLeaf(x, j) ==
    /\ x.type = "Text"
    /\ "children" \notin DOMAIN x
    /\ x.value = JStr("Unknown widget type: " \o PyStr(Get(j, "type")))

\* x is a Card of zero padding, keyed by the call, whose only child is w
IsWrapperOf(x, w) ==
    /\ x.type = "Card"
    /\ x.key = JStr(call.data.key)
    /\ x.padding = JNum(0)
    /\ x.children = <<w>>

\* C1: whatever JSON value is given as widget_spec,
\* render_chatkit_widget_from_json returns a container root, a Card, and no
\* exception escapes it.
C1_AlwaysCard ==
    IsRenderCall =>
        /\ ~IsRaise(ret)
        /\ ret.type = "Card"
        /\ "children" \in DOMAIN ret

\* the walk raised below the root and the call still returned a Card
C1_Witness ==
    /\ IsRenderCall
    /\ IsRaise(CompiledRoot)
    /\ HasType(call.data.widget_spec, "Row")
    /\ ret.type = "Card"

\* C2: Root wrapping: a top-level spec that compiles to a non-container node
\* comes back as a zero-padding container whose only child is that node; a
\* top-level Card spec comes back as the compiled Card itself, unwrapped.
C2_RootWrapping ==
    IsRenderCall =>
        /\ (IsComponent(CompiledRoot) /\ CompiledRoot.type \notin ContainerTypes
                => IsWrapperOf(ret, CompiledRoot))
        /\ (HasType(call.data.widget_spec, "Card") /\ IsComponent(CompiledRoot)
                => ret = CompiledRoot)

\* a bare Text spec came back wrapped
C2_Witness ==
    /\ IsRenderCall
    /\ HasType(call.data.widget_spec, "Text")
    /\ IsComponent(CompiledRoot)
    /\ IsWrapperOf(ret, CompiledRoot)

\* a Card spec with children came back as the compiled Card
C2_WitnessCard ==
    /\ IsRenderCall
    /\ HasType(call.data.widget_spec, "Card")
    /\ IsComponent(CompiledRoot)
    /\ Len(CompiledRoot.children) > 0
    /\ ret = CompiledRoot

\* C3 as stated: a compiled root of any container type (Card, Box, Row, Col)
\* is returned as it is, and only a non-container root is wrapped.
C3_AnyContainerAsIs ==
    (IsRenderCall /\ IsComponent(CompiledRoot)) =>
        IF CompiledRoot.type \in ContainerTypes
        THEN ret = CompiledRoot
        ELSE IsWrapperOf(ret, CompiledRoot)

\* C3 amended: only a compiled Card root is returned as it is; every other
\* compiled root, a Box, Row or Col as much as a non-container node, is
\* wrapped in a zero-padding Card whose only child it is.
C3_OnlyCardAsIs ==
    (IsRenderCall /\ IsComponent(CompiledRoot)) =>
        IF CompiledRoot.type = "Card"
        THEN ret = CompiledRoot
        ELSE IsWrapperOf(ret, CompiledRoot) /\ ret # CompiledRoot

\* a Row root with children came back wrapped in a Card
C3_Witness ==
    /\ IsRenderCall
    /\ IsComponent(CompiledRoot)
    /\ CompiledRoot.type = "Row"
    /\ Len(CompiledRoot.children) > 0
    /\ IsWrapperOf(ret, CompiledRoot)

\* the spec of the parse call is a container spec that compiled
CompiledContainer ==
    /\ IsParseCall
    /\ \E t \in ContainerTypes : HasType(call.spec, t)
    /\ IsComponent(ret)

\* the entries of the `children` of the parsed spec (none when it has no list)
ChildEntries ==
    IF Has(call.spec, "children") /\ Get(call.spec, "children").k = "arr"
    THEN Get(call.spec, "children").v
    ELSE <<>>

\* the `children` of the parsed spec is a list of objects that all carry a type
AllChildrenTyped ==
    /\ Has(call.spec, "children")
    /\ Get(call.spec, "children").k = "arr"
    /\ \A i \in 1..Len(ChildEntries) : IsTyped(ChildEntries[i])

\* the number of children a Card gets beyond those compiled from `children`
ButtonRows ==
    IF HasType(call.spec, "Card") /\ (Has(call.spec, "confirm") \/ Has(call.spec, "cancel"))
    THEN 1 ELSE 0

\* C4 as stated: a node of unknown type compiles to exactly one leaf Text
\* saying so, without raising; a container whose children are all typed
\* objects compiles to a container with exactly as many children as the
\* input, a diagnostic leaf at each position of unknown type.
C4_UnknownContainment ==
    /\ (IsParseCall /\ IsUnknownType(call.spec) => IsUnknownLeaf(ret, call.spec))
    /\ (CompiledContainer /\ AllChildrenTyped =>
            /\ Len(ret.children) = Len(ChildEntries)
            /\ \A i \in 1..Len(ChildEntries) :
                  IsUnknownType(ChildEntries[i])
                      => IsUnknownLeaf(ret.children[i], ChildEntries[i]))

\* C4 amended: a node of unknown type compiles to exactly one leaf Text
\* saying so, without raising; a container whose children are all typed
\* objects compiles to a container that holds one child per input child at
\* the same position, a diagnostic leaf at each position of unknown type,
\* and, when it is a Card with confirm or cancel, one more child after
\* them, the button row.
C4_UnknownContainmentButtons ==
    /\ (IsParseCall /\ IsUnknownType(call.spec) => IsUnknownLeaf(ret, call.spec))
    /\ (CompiledContainer /\ AllChildrenTyped =>
            /\ Len(ret.children) = Len(ChildEntries) + ButtonRows
            /\ \A i \in 1..Len(ChildEntries) :
                  IsUnknownType(ChildEntries[i])
                      => IsUnknownLeaf(ret.children[i], ChildEntries[i]))

\* ten typed children, three of unknown type: ten compiled children, three
\* diagnostic leaves
C4_Witness ==
    /\ CompiledContainer
    /\ AllChildrenTyped
    /\ Len(ChildEntries) = 10
    /\ Len(ret.children) = 10
    /\ Cardinality({i \in 1..10 : IsUnknownType(ChildEntries[i])}) = 3
    /\ Cardinality({i \in 1..10 : ret.children[i].type = "Text"
                                    /\ ret.children[i].color = JStr("tertiary")}) = 3

\* the compiled forms of the typed entries of items[i..], in order
RECURSIVE CompiledTyped(_, _)
CompiledTyped(items, i) ==
    IF i > Len(items) THEN <<>>
    ELSE (IF IsTyped(items[i]) THEN <<_parse_widget_component(items[i])>> ELSE <<>>)
            \o CompiledTyped(items, i + 1)

\* C5 as stated: for every container type, the compiled children are
\* exactly the compiled forms, in input order, of the `children` entries
\* that are objects carrying a type; the other entries are left out.
C5_ChildrenExactly ==
    CompiledContainer => ret.children = CompiledTyped(ChildEntries, 1)

\* C5 amended: for every container type, the compiled children begin with
\* exactly the compiled forms, in input order, of the `children` entries
\* that are objects carrying a type, the other entries being left out;
\* nothing follows them, except the button row of a Card that has confirm
\* or cancel.
C5_ChildrenThenButtons ==
    CompiledContainer =>
        LET expected == CompiledTyped(ChildEntries, 1)
        IN  /\ Len(ret.children) = Len(expected) + ButtonRows
            /\ SubSeq(ret.children, 1, Len(expected)) = expected
            /\ (ButtonRows = 1 => ret.children[Len(ret.children)].type = "Row")

\* an entry that is no typed object was left out and the typed entry after
\* it was compiled
C5_Witness ==
    /\ CompiledContainer
    /\ Len(ChildEntries) = 2
    /\ ~IsTyped(ChildEntries[1])
    /\ IsTyped(ChildEntries[2])
    /\ ButtonRows = 0
    /\ ret.children = <<_parse_widget_component(ChildEntries[2])>>

\* the position of a key in the source object
KeyIndex(d, key) == CHOOSE i \in 1..Len(d.v) : d.v[i][1] = key

\* the parsed spec is a Card with both confirm and cancel, and it compiled
CardWithBoth ==
    /\ IsParseCall
    /\ HasType(call.spec, "Card")
    /\ Has(call.spec, "confirm")
    /\ Has(call.spec, "cancel")
    /\ IsComponent(ret)

\* C6: Confirm/cancel ordering: for a Card spec with both confirm and
\* cancel, in whatever key order and with whatever children, the last child
\* of the compiled Card is a horizontal group whose children are exactly
\* the Cancel button (outline) and then the Confirm button (solid).
C6_CancelThenConfirm ==
    CardWithBoth =>
        LET group == ret.children[Len(ret.children)]
        IN  /\ group.type = "Row"
            /\ Len(group.children) = 2
            /\ group.children[1].type = "Button"
            /\ group.children[1].variant = JStr("outline")
            /\ group.children[1].label
                  = GetOr(Get(call.spec, "cancel"), "label", JStr("Cancel"))
            /\ group.children[2].type = "Button"
            /\ group.children[2].variant = JStr("solid")
            /\ group.children[2].label
                  = GetOr(Get(call.spec, "confirm"), "label", JStr("Confirm"))

\* confirm comes before cancel in the source, the Card has children of its
\* own, and the group still ends the Card with Cancel first
C6_Witness ==
    /\ CardWithBoth
    /\ KeyIndex(call.spec, "confirm") < KeyIndex(call.spec, "cancel")
    /\ Len(ret.children) > 1
    /\ ret.children[Len(ret.children)].children[1].variant = JStr("outline")
    /\ ret.children[Len(ret.children)].children[2].label = JStr("Send")

\* the attributes whose values are enumerated
EnumAttrs == {"size", "weight", "color", "align", "justify", "direction", "variant"}

\* every enumerated attribute the node carries, and that the table of its
\* type documents an allow-list for, holds a member of that allow-list
NodeEnumsValid(node) ==
    \A a \in EnumAttrs \cap DOMAIN node :
        LET vv == valid_values(node.type, a)
        IN  (vv.kind = "list" /\ Len(vv.items) > 0) =>
                (node[a].k = "str" /\ node[a].v \in Range(vv.items))

\* the same for the node and every node below it
RECURSIVE TreeEnumsValid(_)
TreeEnumsValid(node) ==
    /\ NodeEnumsValid(node)
    /\ "children" \in DOMAIN node =>
           \A i \in 1..Len(node.children) : TreeEnumsValid(node.children[i])

\* C12: For every input spec, every enumerated attribute (size, weight,
\* color, align, justify, direction, variant) carried by any node of the tree
\* compiled by _parse_widget_component holds a value from that component
\* type's documented allow-list; a raw, unvalidated enum string from the
\* input never appears on a compiled node.
C12_NoRawEnum == (IsParseCall /\ IsComponent(ret)) => TreeEnumsValid(ret)

\* the walk over the spec of the render call raised
CompileFailed == IsRenderCall /\ IsRaise(CompiledRoot)

\* C13: Whole-compile failure: whenever any step of the walk fails
\* unexpectedly at any depth, render_chatkit_widget_from_json returns a
\* container with exactly one child, a Text leaf with color "error" and
\* weight "medium" carrying the failure description, and no part of the
\* partially compiled tree appears in the result.
C13_ErrorSubstitution ==
    CompileFailed =>
        /\ ret.type = "Card"
        /\ Len(ret.children) = 1
        /\ ret.children[1].type = "Text"
        /\ "children" \notin DOMAIN ret.children[1]
        /\ "color" \in DOMAIN ret.children[1]
        /\ ret.children[1].color = JStr("error")
        /\ "weight" \in DOMAIN ret.children[1]
        /\ ret.children[1].weight = JStr("medium")
        /\ ret.children[1].value =
               JStr("Error rendering widget: " \o CompiledRoot.msg)

\* the second child of a Card failed one level further down, after the
\* Card's first entry and the failing container's own siblings were walked
C13_Witness ==
    /\ CompileFailed
    /\ HasType(call.data.widget_spec, "Card")
    /\ Has(call.data.widget_spec, "children")
    /\ LET c == Get(call.data.widget_spec, "children")
       IN  /\ c.k = "arr"
           /\ Len(c.v) = 2
           /\ IsDict(c.v[2])
           /\ Has(c.v[2], "children")
           /\ Get(c.v[2], "children").k = "arr"
           /\ Len(Get(c.v[2], "children").v) = 2
           /\ IsRaise(_parse_widget_component(Get(c.v[2], "children").v[2]))
    /\ Len(ret.children) = 1
    /\ ret.children[1].color = JStr("error")

\* C16: The per-node tree compiler _parse_widget_component never raises:
\* for every JSON value, including nodes whose `children` is not a sequence
\* or whose `confirm`, `cancel` or `editable` field is not an object, it
\* yields either null or a component node, and the malformation is signalled
\* only through the null return at that position.
C16_NeverRaises == IsParseCall => (IsNone(ret) \/ IsComponent(ret))

\* the parsed spec is a Card with confirm, cancel or both, and it compiled
CardWithButtons ==
    /\ IsParseCall
    /\ HasType(call.spec, "Card")
    /\ (Has(call.spec, "confirm") \/ Has(call.spec, "cancel"))
    /\ IsComponent(ret)

\* the last child of the compiled Card
TrailingGroup == ret.children[Len(ret.children)]

\* node is the button made for the descriptor stored under key
IsActionButton(node, key, default_label, variant) ==
    /\ node.type = "Button"
    /\ node.variant = JStr(variant)
    /\ node.label = GetOr(Get(call.spec, key), "label", JStr(default_label))

\* C17: Whenever a Card spec carries `confirm` and/or `cancel` (either one
\* alone or both), the compiled Card ends with a trailing horizontal group
\* holding two buttons, a Cancel button (outline) followed by a Confirm
\* button (solid).
C17_AlwaysTwoButtons ==
    CardWithButtons =>
        /\ TrailingGroup.type = "Row"
        /\ Len(TrailingGroup.children) = 2
        /\ TrailingGroup.children[1].type = "Button"
        /\ TrailingGroup.children[1].variant = JStr("outline")
        /\ TrailingGroup.children[2].type = "Button"
        /\ TrailingGroup.children[2].variant = JStr("solid")

\* C17 amended: the trailing horizontal group holds one button for each
\* descriptor the spec carries: a Cancel button (outline) when it carries
\* `cancel`, a Confirm button (solid) when it carries `confirm`, Cancel
\* before Confirm when it carries both.
C17_OneButtonPerDescriptor ==
    CardWithButtons =>
        /\ TrailingGroup.type = "Row"
        /\ TrailingGroup.justify = JStr("end")
        /\ Len(TrailingGroup.children)
              = (IF Has(call.spec, "cancel") THEN 1 ELSE 0)
                  + (IF Has(call.spec, "confirm") THEN 1 ELSE 0)
        /\ Has(call.spec, "cancel") =>
               IsActionButton(TrailingGroup.children[1], "cancel", "Cancel", "outline")
        /\ Has(call.spec, "confirm") =>
               IsActionButton(TrailingGroup.children[Len(TrailingGroup.children)],
                              "confirm", "Confirm", "solid")

\* a Card with confirm alone, and children of its own, ends with a group
\* holding the Confirm button only
C17_Witness ==
    /\ CardWithButtons
    /\ ~Has(call.spec, "cancel")
    /\ Len(ret.children) > 1
    /\ Len(TrailingGroup.children) = 1
    /\ TrailingGroup.children[1].variant = JStr("solid")
    /\ TrailingGroup.children[1].label = JStr("Send")

\* the wrapper Card the success path builds under the key of the call,
\* without its child
DefaultWrapper == WrapperCard(call.data.key, None)

\* C18: The container returned on the error path of
\* render_chatkit_widget_from_json has the same shape as the default wrapper
\* container the success path builds for a non-container root: same
\* container type, same key and same padding, differing only in its single
\* child.
C18_SameShapeAsWrapper ==
    CompileFailed =>
        /\ Len(ret.children) = 1
        /\ [ret EXCEPT !.children = <<>>] = DefaultWrapper

\* C18 amended: the error container has the container type, the key and the
\* attribute names of the default wrapper and a single child, but not its
\* padding: the error container has padding 4, the wrapper padding 0.
C18_SameShapeButPadding ==
    CompileFailed =>
        /\ Len(ret.children) = 1
        /\ ret.type = DefaultWrapper.type
        /\ ret.key = DefaultWrapper.key
        /\ DOMAIN ret = DOMAIN DefaultWrapper
        /\ ret.padding = JNum(4)
        /\ DefaultWrapper.padding = JNum(0)
        /\ [ret EXCEPT !.children = <<>>, !.padding = JNum(0)] = DefaultWrapper

\* a Text root with a non-object `editable`, given under a key of its own:
\* the error container carries that key and padding 4
C18_Witness ==
    /\ CompileFailed
    /\ HasType(call.data.widget_spec, "Text")
    /\ call.data.key = "chatkit_4711"
    /\ ret.key = JStr("chatkit_4711")
    /\ ret.padding = JNum(4)

\* the parsed spec is a Box, and it compiled
CompiledBox ==
    /\ IsParseCall
    /\ HasType(call.spec, "Box")
    /\ IsComponent(ret)

\* C19: Box direction normalization: for every value of `direction` in a Box
\* spec, the compiled Box direction is "row" or "col"; "row" and
\* "horizontal" give "row", "col", "column" and "vertical" give "col", and
\* an absent or any other token gives "col".
C19_BoxDirection ==
    CompiledBox =>
        /\ ret.type = "Box"
        /\ ret.direction \in {JStr("row"), JStr("col")}
        /\ IF Has(call.spec, "direction")
           THEN LET d == Get(call.spec, "direction")
                IN  CASE d \in {JStr("row"), JStr("horizontal")} ->
                            ret.direction = JStr("row")
                      [] d \in {JStr("col"), JStr("column"), JStr("vertical")} ->
                            ret.direction = JStr("col")
                      [] OTHER -> ret.direction = JStr("col")
           ELSE ret.direction = JStr("col")

\* the canonical value "row" is given and stays "row"
C19_Witness ==
    /\ CompiledBox
    /\ Has(call.spec, "direction")
    /\ Get(call.spec, "direction") = JStr("row")
    /\ ret.direction = JStr("row")

\* a token that is no direction falls back to "col"
C19_WitnessOther ==
    /\ CompiledBox
    /\ Has(call.spec, "direction")
    /\ Get(call.spec, "direction") = JStr("diagonal")
    /\ ret.direction = JStr("col")

\* the parsed spec is a Text, and it compiled
CompiledText ==
    /\ IsParseCall
    /\ HasType(call.spec, "Text")
    /\ IsComponent(ret)

\* the Text spec gives no literal value: none at all, or the empty string
NoLiteralValue ==
    ~Has(call.spec, "value") \/ Get(call.spec, "value") = JStr("")

\* the Text spec gives a non-empty string as its value
NonEmptyLiteralValue ==
    /\ Has(call.spec, "value")
    /\ Get(call.spec, "value").k = "str"
    /\ Len(Get(call.spec, "value").v) > 0

\* C20: Text editable rule: for a Text spec that has `editable` metadata and
\* no literal value, the compiled Text value is the editable block's
\* `placeholder`, or the fixed literal "[Editable text]" when the placeholder
\* is absent too; when a non-empty literal value is given, the compiled
\* value is that literal regardless of `editable`.
C20_EditableRule ==
    CompiledText =>
        /\ ret.type = "Text"
        /\ (Has(call.spec, "editable") /\ NoLiteralValue) =>
               IF Has(Get(call.spec, "editable"), "placeholder")
               THEN ret.value = Get(Get(call.spec, "editable"), "placeholder")
               ELSE ret.value = JStr("[Editable text]")
        /\ NonEmptyLiteralValue => ret.value = Get(call.spec, "value")

\* editable metadata without a placeholder, and no value: the fixed literal
C20_Witness ==
    /\ CompiledText
    /\ Has(call.spec, "editable")
    /\ ~Has(call.spec, "value")
    /\ ~Has(Get(call.spec, "editable"), "placeholder")
    /\ ret.value = JStr("[Editable text]")

\* a non-empty value next to editable metadata with a placeholder: the value
C20_WitnessLiteral ==
    /\ CompiledText
    /\ Has(call.spec, "editable")
    /\ IsDict(Get(call.spec, "editable"))
    /\ Has(Get(call.spec, "editable"), "placeholder")
    /\ NonEmptyLiteralValue
    /\ ret.value = JStr("v")

\* the parsed spec has type "Divider"
IsDividerCall == IsParseCall /\ HasType(call.spec, "Divider")

\* the values the spec gives under keys other than `type`
SpecAttributeValues(spec) ==
    {spec.v[i][2] : i \in {j \in 1..Len(spec.v) : spec.v[j][1] # "type"}}

\* the values of the attributes of a node, its children set aside
NodeAttributeValues(node) ==
    {node[a] : a \in DOMAIN node \ {"type", "children"}}

\* C21: Divider is a structural substitution: every spec with type
\* "Divider", whatever other attributes it carries, compiles to the same
\* fixed structure, a Box with vertical (top and bottom) padding whose only
\* child is a thin full-width filler Box; no attribute of the input Divider
\* spec reaches the output.
C21_DividerFixed ==
    IsDividerCall =>
        /\ IsComponent(ret)
        /\ ret.type = "Box"
        /\ DOMAIN ret = {"type", "padding", "children"}
        /\ ret.padding = JObj(<< <<"top", JNum(2)>>, <<"bottom", JNum(2)>> >>)
        /\ Len(ret.children) = 1
        /\ ret.children[1].type = "Box"
        /\ DOMAIN ret.children[1] = {"type", "height", "background", "width"}
        /\ ret.children[1].height = JNum(1)
        /\ ret.children[1].width = JStr("100%")
        /\ ret.children[1].background = JStr("surface-tertiary")
        /\ SpecAttributeValues(call.spec)
              \cap (NodeAttributeValues(ret) \cup NodeAttributeValues(ret.children[1]))
              = {}

\* a Divider spec with padding, height, background, width and children of
\* its own compiles to the fixed structure
C21_Witness ==
    /\ IsDividerCall
    /\ Has(call.spec, "background")
    /\ Has(call.spec, "children")
    /\ Has(call.spec, "padding")
    /\ Len(ret.children) = 1
    /\ ret.children[1].background = JStr("surface-tertiary")
    /\ ret.children[1].height = JNum(1)

\* a Divider spec with a colour compiles to the fixed structure
C21_WitnessColor ==
    /\ IsDividerCall
    /\ Has(call.spec, "color")
    /\ ret.children[1].background = JStr("surface-tertiary")

\* the keys the parser of each widget type reads from its spec
RecognizedKeys(type) ==
    {"type"} \cup
    CASE type = "Card" -> {"children", "confirm", "cancel", "size", "background",
                           "padding", "theme", "status", "collapsed", "asForm"}
      [] type = "Row" -> {"children", "gap", "align", "justify"}
      [] type = "Col" -> {"children", "gap", "align"}
      [] type = "Text" -> {"value", "editable", "color", "size", "weight", "width",
                           "minLines", "style"}
      [] type = "Title" -> {"value", "color", "size", "weight"}
      [] type = "Box" -> {"children", "direction", "padding", "gap", "align",
                          "justify", "background", "radius"}
      [] type = "Button" -> {"label", "variant", "size", "action"}
      [] type = "Divider" -> {}
      [] type = "Caption" -> {"value", "color", "size", "weight", "textAlign",
                              "truncate", "maxLines"}
      [] type = "Image" -> {"src", "alt", "fit", "position", "radius", "frame",
                            "flush", "height", "width", "size", "minHeight",
                            "minWidth", "minSize", "maxHeight", "maxWidth",
                            "maxSize", "margin", "background", "aspectRatio", "flex"}
      [] type = "Spacer" -> {"minSize"}
      [] type = "DatePicker" -> {"name", "placeholder", "onChangeAction",
                                 "defaultValue", "min", "max", "variant", "size",
                                 "side", "align", "pill", "block", "clearable",
                                 "disabled"}
      [] type = "Select" -> {"name", "options", "placeholder", "onChangeAction",
                             "defaultValue", "variant", "size", "pill", "block",
                             "clearable", "disabled"}
      [] OTHER -> {}

\* the object d with key set to value: changed where d has the key, added
\* after the other keys where it has not
SetKey(d, key, value) ==
    IF Has(d, key)
    THEN JObj([i \in 1..Len(d.v) |->
                  IF d.v[i][1] = key THEN <<key, value>> ELSE d.v[i]])
    ELSE JObj(d.v \o << <<key, value>> >>)

\* the spec is a node of a known widget type
IsKnownNode(j) ==
    /\ IsTyped(j)
    /\ Get(j, "type").k = "str"
    /\ Get(j, "type").v \in WidgetTypes

\* the spec with key set to value on every node of a known type whose
\* parser does not read that key, the nodes under `children` included
RECURSIVE Decorate(_, _, _)
Decorate(j, key, value) ==
    IF ~IsKnownNode(j) THEN j
    ELSE LET type == Get(j, "type").v
             below ==
                 JObj([i \in 1..Len(j.v) |->
                         IF /\ j.v[i][1] = "children"
                            /\ type \in ContainerTypes
                            /\ j.v[i][2].k = "arr"
                         THEN <<"children",
                                JArr([n \in 1..Len(j.v[i][2].v) |->
                                         Decorate(j.v[i][2].v[n], key, value)])>>
                         ELSE j.v[i]])
         IN  IF key \in RecognizedKeys(type) THEN below
             ELSE SetKey(below, key, value)

\* the keys added or changed, and the values they are given
ExtraKeys == {"onHover", "title", "children", "direction", "justify", "color"}
ExtraValues == {JStr("zzz"), JNum(5), JArr(<<O(<<T("Text")>>)>>)}

\* C22: Strict output schema: for every known widget type, attribute names
\* outside that type's recognized set are dropped without error, so adding
\* or changing an unrecognized key on any node of a spec leaves the compiled
\* tree unchanged and raises nothing.
C22_UnrecognizedKeysDropped ==
    IsParseCall =>
        \A key \in ExtraKeys, value \in ExtraValues :
            _parse_widget_component(Decorate(call.spec, key, value)) = ret

\* an Image spec that carries the unrecognized key `title` compiles to an
\* Image without it, and the same Image when `children` is added as well
C22_Witness ==
    /\ IsParseCall
    /\ HasType(call.spec, "Image")
    /\ Has(call.spec, "title")
    /\ IsComponent(ret)
    /\ "title" \notin DOMAIN ret
    /\ Decorate(call.spec, "children", JNum(5)) # call.spec
    /\ Has(Decorate(call.spec, "children", JNum(5)), "children")
    /\ _parse_widget_component(Decorate(call.spec, "children", JNum(5))) = ret

\* a Card whose children are nodes of known types compiles to the same
\* Card when every node in it is given an unrecognized key
C22_WitnessNested ==
    /\ IsParseCall
    /\ HasType(call.spec, "Card")
    /\ IsComponent(ret)
    /\ Len(ret.children) > 1
    /\ Decorate(call.spec, "onHover", JStr("zzz")) # SetKey(call.spec, "onHover", JStr("zzz"))
    /\ _parse_widget_component(Decorate(call.spec, "onHover", JStr("zzz"))) = ret

\* the root carries the key the caller supplied
RootCarriesKey == "key" \in DOMAIN ret /\ ret.key = JStr(call.data.key)

\* the top-level spec compiles to a Card, which is returned as it is
CardReturnedAsIs ==
    /\ IsRenderCall
    /\ IsComponent(_parse_widget_component(call.data.widget_spec))
    /\ _parse_widget_component(call.data.widget_spec).type = "Card"

\* C30: the root returned by render_chatkit_widget_from_json always carries
\* the caller-supplied key data.key, on all three paths: a Card root
\* returned as-is, the wrapper around a non-Card root, and the error
\* container
C30_RootCarriesKey == IsRenderCall => RootCarriesKey

\* the wrapper and the error container do carry the key
C30_KeyOnWrapperAndError == (IsRenderCall /\ ~CardReturnedAsIs) => RootCarriesKey

\* a Card returned as it is carries no key at all
C30_NoKeyOnCardRoot == CardReturnedAsIs => "key" \notin DOMAIN ret

(***************************************************************************)
(* Properties of the generic-data renderer                                 *)
(***************************************************************************)
\* render_json_widget has returned
IsJsonCall == call.op = "render_json_widget" /\ pc = "done"

\* the rendering of the top-level value: the only child of the body
Content == ret.children[2].children[1]

\* node is the "max depth reached" leaf
IsSentinel(node) ==
    node.type = "Text" /\ node.value = JStr("... (max depth reached)")

\* the rows of the rendering of a non-empty object or array
RowsOf(node) == node.children[1].children

\* the rendering of the value of a row
ValueOf(row) == row.children[2].children[1]

\* node renders value, located at the given depth, the way the depth rule
\* says for max_depth d: the sentinel at depth d+1, by JSON kind at depth
\* <= d (an object or array as one row per entry, each entry rendered by
\* the same rule one level down; a primitive as its literal), and nothing
\* beyond depth d+1
RECURSIVE RenderedByDepthRule(_, _, _, _)
RenderedByDepthRule(value, node, depth, d) ==
    IF depth > d + 1 THEN FALSE
    ELSE IF depth = d + 1 THEN IsSentinel(node)
    ELSE IF value.k \in {"obj", "arr"}
    THEN IF Len(value.v) = 0
         THEN node.type = "Text"
                /\ node.value = JStr(IF value.k = "obj" THEN "{}" ELSE "[]")
         ELSE /\ node.type = "Box"
              /\ Len(RowsOf(node)) = Len(value.v)
              /\ \A i \in 1..Len(value.v) :
                    RenderedByDepthRule(
                        IF value.k = "obj" THEN value.v[i][2] ELSE value.v[i],
                        ValueOf(RowsOf(node)[i]), depth + 1, d)
    ELSE /\ node.type = "Row"
         /\ node.children[1].value = JStr(PrimitiveStyle(value).display_value)

\* C7 as stated: Depth cutoff: for every max_depth d and every input, each
\* value at nesting depth d+1 is rendered as the "max depth reached" leaf,
\* every value at depth <= d is rendered by its JSON kind, and nothing is
\* rendered for depths beyond d+1.
C7_DepthCutoff ==
    IsJsonCall => RenderedByDepthRule(call.data.data, Content, 0, call.data.max_depth)

\* C7 amended: the same for every max_depth d >= -1; for d < -1 the
\* top-level value itself, at depth 0, is rendered as the "max depth
\* reached" leaf.
C7_DepthCutoffFromMinusOne ==
    IsJsonCall =>
        IF call.data.max_depth >= -1
        THEN RenderedByDepthRule(call.data.data, Content, 0, call.data.max_depth)
        ELSE IsSentinel(Content)

\* the a-chain of objects nested n deep around a leaf value
RECURSIVE ObjectChain(_)
ObjectChain(n) ==
    IF n = 0 THEN JNum(42)
    ELSE JObj(<< <<"a", ObjectChain(n - 1)>>, <<"b", JNum(1)>> >>)

\* with max_depth = 2, an object nested 5 levels deep shows its levels 0, 1
\* and 2 and the sentinel at depth 3
C7_Witness ==
    /\ IsJsonCall
    /\ call.data.max_depth = 2
    /\ call.data.data = ObjectChain(5)
    /\ Content.type = "Box"
    /\ ValueOf(RowsOf(Content)[1]).type = "Box"
    /\ ValueOf(RowsOf(ValueOf(RowsOf(Content)[1]))[1]).type = "Box"
    /\ IsSentinel(ValueOf(RowsOf(ValueOf(RowsOf(ValueOf(RowsOf(Content)[1]))[1]))[1]))
    /\ IsSentinel(ValueOf(RowsOf(ValueOf(RowsOf(ValueOf(RowsOf(Content)[1]))[1]))[2]))

\* C15: Generic-data mode never propagates a failure: for every JSON value
\* (object, array or primitive at top level, any nesting) and every integer
\* max_depth including 0 and negative values, render_json_widget returns a
\* Card whose children are exactly the header and the body, the body holding
\* exactly one rendered content node.
C15_AlwaysHeaderAndBody ==
    IsJsonCall =>
        /\ ~IsRaise(ret)
        /\ ret.type = "Card"
        /\ Len(ret.children) = 2
        /\ ret.children[1].type = "Box"
        /\ Len(ret.children[1].children) = 1
        /\ ret.children[1].children[1].type = "Row"
        /\ ret.children[1].children[1].children[1].type = "Title"
        /\ ret.children[1].children[1].children[1].value = JStr(call.data.title)
        /\ ret.children[2].type = "Box"
        /\ Len(ret.children[2].children) = 1
        /\ IsComponent(Content)
        /\ Content.type \in {"Text", "Row", "Box"}

\* a nested array given with a negative max_depth comes back as a Card of
\* header and body, the body holding the "max depth reached" leaf
C15_Witness ==
    /\ IsJsonCall
    /\ call.data.max_depth < -1
    /\ call.data.data.k = "arr"
    /\ Len(call.data.data.v) > 0
    /\ call.data.data.v[1].k = "obj"
    /\ ret.type = "Card"
    /\ Len(ret.children) = 2
    /\ IsSentinel(Content)

\* a primitive at top level with max_depth = 0 is rendered as a row
C15_WitnessPrimitive ==
    /\ IsJsonCall
    /\ call.data.max_depth = 0
    /\ call.data.data = JNum(42)
    /\ Content.type = "Row"

\* the literal a primitive's row displays: the value of its first Text
DisplayOf(row) == row.children[1].value.v

\* the text between the first and the last character of a display literal
Unquoted(shown) == SubSeq(shown, 2, Len(shown) - 1)

\* the display literal shows the string s by the truncation rule
ShownByTruncationRule(s, shown) ==
    /\ Len(shown) >= 2
    /\ SubSeq(shown, 1, 1) = "\""
    /\ SubSeq(shown, Len(shown), Len(shown)) = "\""
    /\ Len(Unquoted(shown)) <= 100
    /\ Len(s) <= 100 => Unquoted(shown) = s
    /\ Len(s) > 100 =>
           /\ Len(Unquoted(shown)) = 100
           /\ SubSeq(Unquoted(shown), 1, 97) = SubSeq(s, 1, 97)
           /\ SubSeq(Unquoted(shown), 98, 100) = "..."

\* the fallback transcript of the data of the call
Transcript == json_widget_copy_text(call.data)

\* the transcript holds the string s in full: its JSON encoding, and s
\* itself where the encoding escapes none of its characters
InTranscript(s) ==
    /\ StrContains(Transcript, JsonQuote(s))
    /\ JsonEscape(s) = s => StrContains(Transcript, s)

\* a string was rendered, at top level or as the first value of an object
StringAtTop == IsJsonCall /\ call.data.data.k = "str" /\ call.data.max_depth >= 0

StringInObject ==
    /\ IsJsonCall
    /\ call.data.data.k = "obj"
    /\ Len(call.data.data.v) > 0
    /\ call.data.data.v[1][2].k = "str"
    /\ call.data.max_depth >= 1

\* C23: String truncation in generic-data mode: a string of at most 100
\* characters is displayed in full; a string of more than 100 characters is
\* displayed as its first 97 characters followed by "..." (never more than
\* 100 characters between the quotes); in both cases the fallback transcript
\* contains the full original string.
C23_StringTruncation ==
    /\ StringAtTop =>
           /\ ShownByTruncationRule(call.data.data.v, DisplayOf(Content))
           /\ InTranscript(call.data.data.v)
    /\ StringInObject =>
           /\ ShownByTruncationRule(call.data.data.v[1][2].v,
                                    DisplayOf(ValueOf(RowsOf(Content)[1])))
           /\ InTranscript(call.data.data.v[1][2].v)

\* a string of 101 characters is displayed as 97 characters and "...", and
\* the transcript holds all 101
C23_Witness ==
    /\ StringAtTop
    /\ Len(call.data.data.v) = 101
    /\ Len(Unquoted(DisplayOf(Content))) = 100
    /\ Unquoted(DisplayOf(Content)) = StrOfLen(97) \o "..."
    /\ StrContains(Transcript, StrOfLen(101))

\* a string of exactly 100 characters is displayed in full
C23_WitnessExactly100 ==
    /\ StringInObject
    /\ Len(call.data.data.v[1][2].v) = 100
    /\ Unquoted(DisplayOf(ValueOf(RowsOf(Content)[1]))) = StrOfLen(100)

\* the value is rendered by _render_primitive: neither an object nor an array
IsPrimitive(value) == value.k \notin {"obj", "arr"}

\* the type tag of a primitive
TypeTag(value) ==
    CASE value.k = "null" -> "null"
      [] value.k = "bool" -> "boolean"
      [] value.k \in {"num", "float"} -> "number"
      [] value.k = "str" -> "string"
      [] OTHER -> "unknown"

\* row is the rendering of a primitive: the literal, and the tag when asked for
IsPrimitiveRow(row, value, show_types) ==
    /\ row.type = "Row"
    /\ Len(row.children) = (IF show_types THEN 2 ELSE 1)
    /\ row.children[1].type = "Text"
    /\ "color" \in DOMAIN row.children[1]
    /\ value.k = "bool" =>
           row.children[1].value = JStr(IF value.v THEN "true" ELSE "false")
    /\ value.k = "null" => row.children[1].value = JStr("null")
    /\ show_types =>
           /\ row.children[2].type = "Text"
           /\ row.children[2].value = JStr("(" \o TypeTag(value) \o ")")

\* a primitive was rendered, at top level or as the first value of an object
PrimitiveAtTop ==
    IsJsonCall /\ IsPrimitive(call.data.data) /\ call.data.max_depth >= 0

PrimitiveInObject ==
    /\ IsJsonCall
    /\ call.data.data.k = "obj"
    /\ Len(call.data.data.v) > 0
    /\ IsPrimitive(call.data.data.v[1][2])
    /\ call.data.max_depth >= 1

\* C24: Primitive rendering: _render_primitive emits the styled literal alone
\* when show_types is false and the literal followed by exactly one type-tag
\* annotation when show_types is true; the tag is `null` for null, `boolean`
\* for true/false (never `number`), `number` for integers and floats,
\* `string` for strings and `unknown` otherwise.
C24_PrimitiveRendering ==
    /\ PrimitiveAtTop =>
           IsPrimitiveRow(Content, call.data.data, call.data.show_types)
    /\ PrimitiveInObject =>
           IsPrimitiveRow(ValueOf(RowsOf(Content)[1]), call.data.data.v[1][2],
                          call.data.show_types)

\* true, with type tags asked for, is shown as `true` and tagged boolean
C24_Witness ==
    /\ PrimitiveAtTop
    /\ call.data.show_types
    /\ call.data.data = JBool(TRUE)
    /\ Len(Content.children) = 2
    /\ Content.children[1].value = JStr("true")
    /\ Content.children[2].value = JStr("(boolean)")

\* a float is tagged number, a value that is no JSON value unknown, and with
\* show_types false the literal stands alone
C24_WitnessFloat ==
    /\ PrimitiveAtTop
    /\ call.data.show_types
    /\ call.data.data = JFloat(15)
    /\ Content.children[1].value = JStr("1.5")
    /\ Content.children[2].value = JStr("(number)")

C24_WitnessUnknown ==
    /\ PrimitiveInObject
    /\ call.data.show_types
    /\ call.data.data.v[1][2] = PyObject
    /\ ValueOf(RowsOf(Content)[1]).children[2].value = JStr("(unknown)")

C24_WitnessNoTypes ==
    /\ PrimitiveAtTop
    /\ ~call.data.show_types
    /\ call.data.data = JNum(42)
    /\ Len(Content.children) = 1

\* the label of a row: the value of the Text in its first Box
LabelOf(row) == row.children[1].children[1].value

\* node renders value, located at the given depth, row by row: one row for
\* each key of an object, labelled with the key, and one for each item of an
\* array, labelled with its index from 0, in the order of the input, the
\* value of each row being the rendering of that entry at depth + 1
RECURSIVE RenderedRowByRow(_, _, _)
RenderedRowByRow(value, node, depth) ==
    IF depth > call.data.max_depth \/ IsPrimitive(value) THEN TRUE
    ELSE IF Len(value.v) = 0
    THEN /\ node.type = "Text"
         /\ node.value = JStr(IF value.k = "obj" THEN "{}" ELSE "[]")
    ELSE /\ node.type = "Box"
         /\ Len(node.children) = 1
         /\ node.children[1].type = "Col"
         /\ Len(RowsOf(node)) = Len(value.v)
         /\ \A i \in 1..Len(value.v) :
                LET entry == IF value.k = "obj" THEN value.v[i][2] ELSE value.v[i]
                    label == IF value.k = "obj" THEN value.v[i][1] \o ":"
                             ELSE "[" \o IntToStr(i - 1) \o "]"
                    key_name == IF value.k = "obj" THEN value.v[i][1]
                                ELSE "item_" \o IntToStr(i - 1)
                IN  /\ RowsOf(node)[i].type = "Row"
                    /\ Len(RowsOf(node)[i].children) = 2
                    /\ LabelOf(RowsOf(node)[i]) = JStr(label)
                    /\ Len(RowsOf(node)[i].children[2].children) = 1
                    /\ ValueOf(RowsOf(node)[i])
                          = _render_json_content(entry, depth + 1, call.data.max_depth,
                                                 call.data.show_types, key_name)
                    /\ RenderedRowByRow(entry, ValueOf(RowsOf(node)[i]), depth + 1)

\* C25: In generic-data mode an object with n keys renders as n key/value
\* rows in the object's key order and an array of n items renders as n rows
\* labelled [0] .. [n-1] in item order, each row's value being the recursive
\* rendering of that entry at depth+1; no entry is dropped, duplicated or
\* reordered.
C25_RowPerEntry ==
    IsJsonCall => RenderedRowByRow(call.data.data, Content, 0)

\* an array of three items, the first and the last equal, the second an
\* object of three keys: three rows [0], [1], [2], and in the second the
\* rows zeta, alpha, mid
C25_Witness ==
    /\ IsJsonCall
    /\ call.data.max_depth >= 1
    /\ call.data.data.k = "arr"
    /\ Len(call.data.data.v) = 3
    /\ call.data.data.v[2].k = "obj"
    /\ Len(RowsOf(Content)) = 3
    /\ LabelOf(RowsOf(Content)[1]) = JStr("[0]")
    /\ LabelOf(RowsOf(Content)[3]) = JStr("[2]")
    /\ ValueOf(RowsOf(Content)[1]) = ValueOf(RowsOf(Content)[3])
    /\ Len(RowsOf(ValueOf(RowsOf(Content)[2]))) = 3
    /\ LabelOf(RowsOf(ValueOf(RowsOf(Content)[2]))[1]) = JStr("zeta:")
    /\ LabelOf(RowsOf(ValueOf(RowsOf(Content)[2]))[2]) = JStr("alpha:")
    /\ LabelOf(RowsOf(ValueOf(RowsOf(Content)[2]))[3]) = JStr("mid:")

\* the attributes of a component type that have an enumerated allow-list
EnumeratedAttributes(widget_type) ==
    {p \in DOMAIN CHATKIT_VALIDATION_RULES[widget_type] :
        CHATKIT_VALIDATION_RULES[widget_type][p].kind = "list"}

\* the spec of the call names a component type of the rule table
SpecOfRuledType ==
    /\ IsParseCall /\ IsComponent(ret)
    /\ IsDict(call.spec) /\ Has(call.spec, "type")
    /\ Get(call.spec, "type").k = "str"
    /\ Get(call.spec, "type").v \in DOMAIN CHATKIT_VALIDATION_RULES

\* the spec supplies a string for attribute p and the compiled node carries p
SuppliedAndCarried(p) ==
    /\ Has(call.spec, p) /\ Get(call.spec, p).k = "str"
    /\ p \in DOMAIN ret

\* C28: the tree compiler and the reference normalizer agree: for every
\* component type and attribute with an enumerated allow-list in
\* CHATKIT_VALIDATION_RULES and every supplied string, the value the tree
\* compiler puts on the compiled node equals
\* validate_and_map_parameter(type, attribute, value)
C28_AgreesWithNormalizer ==
    SpecOfRuledType =>
        \A p \in EnumeratedAttributes(Get(call.spec, "type").v) :
            SuppliedAndCarried(p) =>
                ret[p] = JStr(validate_and_map_parameter(
                                  Get(call.spec, "type").v, p, Get(call.spec, p).v))

\* the two do agree on Box direction, where both hold the same aliases
C28_BoxDirectionAgrees ==
    (SpecOfRuledType /\ Get(call.spec, "type").v = "Box"
        /\ SuppliedAndCarried("direction")) =>
        ret.direction = JStr(validate_and_map_parameter(
                                 "Box", "direction", Get(call.spec, "direction").v))

(***************************************************************************)
(* Properties of the plain-text fallbacks                                  *)
(***************************************************************************)
\* one of the two copy-text functions has returned
IsCopyCall ==
    /\ call.op \in {"chatkit_widget_copy_text", "json_widget_copy_text"}
    /\ pc = "done"

\* the original input of the widget the fallback is made for
CopyInput ==
    IF call.op = "chatkit_widget_copy_text" THEN call.data.widget_spec
    ELSE call.data.data

StartsWith(s, prefix) ==
    Len(prefix) <= Len(s) /\ SubSeq(s, 1, Len(prefix)) = prefix

EndsWith(s, suffix) ==
    Len(suffix) <= Len(s) /\ SubSeq(s, Len(s) - Len(suffix) + 1, Len(s)) = suffix

\* C14: In both modes the plain-text fallback is non-empty and is the title
\* followed by a pretty-printed serialization of the original input: it is a
\* function of the title and the original input only, so it does not depend
\* on max_depth, show_types, display truncation, or on whether the compile
\* took the error path.
C14_CopyText ==
    (IsCopyCall /\ ~NotSerializable(CopyInput)) =>
        /\ Len(ret) > 0
        /\ StartsWith(ret, call.data.title)
        /\ EndsWith(ret, json_dumps(CopyInput, 0))
        /\ Len(ret) >= Len(call.data.title) + Len(json_dumps(CopyInput, 0))
        /\ CopyInput.k = "obj" =>
               \A i \in 1..Len(CopyInput.v) :
                   CopyInput.v[i][2].k = "str" =>
                       StrContains(ret, CopyInput.v[i][2].v)
        /\ call.op = "json_widget_copy_text" =>
               \A m \in (0 - MaxNegDepth)..MaxMaxDepth, st \in BOOLEAN :
                   json_widget_copy_text(
                       [call.data EXCEPT !.max_depth = m, !.show_types = st]) = ret

\* with max_depth below zero, where the widget shows nothing of the data,
\* the fallback is what json.dumps(indent=2) prints for the data
C14_Witness ==
    /\ IsCopyCall
    /\ call.op = "json_widget_copy_text"
    /\ call.data.max_depth < 0
    /\ call.data.data = JObj(<< <<"a", JArr(<<JNum(42)>>)>>, <<"b", JNum(1)>> >>)
    /\ ret = "Demo\n\n{\n  \"a\": [\n    42\n  ],\n  \"b\": 1\n}"

\* a spec whose compile takes the error path has the fallback of its text
C14_WitnessErrorPath ==
    /\ IsCopyCall
    /\ call.op = "chatkit_widget_copy_text"
    /\ IsRaise(_parse_widget_component(call.data.widget_spec))
    /\ call.data.widget_spec = O(<<T("Text"), <<"editable", JBool(TRUE)>> >>)
    /\ ret = "Demo\n\nWidget Specification:\n{\n  \"type\": \"Text\",\n  \"editable\": true\n}"

\* a string of more than 100 characters is in the fallback in full
C14_WitnessLongString ==
    /\ IsCopyCall
    /\ call.op = "json_widget_copy_text"
    /\ call.data.data = JObj(<< <<"note", JStr(LongString)>> >>)
    /\ StrContains(ret, LongString)

(***************************************************************************)
(* Properties of calls in sequence                                         *)
(***************************************************************************)
\* the step is an operation running from its call to its return
OperationStep == pc \in {"ready", "again"} /\ pc' \in {"done", "repeated"}

\* both rule tables are what the module loaded
TablesAsLoaded ==
    rules = CHATKIT_VALIDATION_RULES /\ mappings = PARAMETER_MAPPINGS

C26_WitnessTree ==
    /\ pc = "repeated"
    /\ call.op = "render_chatkit_widget_from_json"
    /\ IsComponent(ret)
    /\ TablesAsLoaded

(***************************************************************************)
(* Properties of the recursion of the generic-data renderer                *)
(***************************************************************************)
\* the deepest depth the ceiling allows: max_depth + 1, and 0 for the entry
\* at the top level
DepthCeiling == IF call.data.max_depth + 1 > 0 THEN call.data.max_depth + 1 ELSE 0

\* every activation entered and not yet returned is at depth <= limit
EnteredWithin(limit) == \A i \in DOMAIN stack : stack[i].depth <= limit

\* an activation past max_depth returns without entering another
ReturnsPastMaxDepth ==
    (pc = "rendering" /\ stack # <<>> /\ Top.depth > call.data.max_depth)
        => Len(stack') < Len(stack)

\* C27 as stated: for every input and every integer max_depth,
\* _render_json_content is never entered with depth greater than
\* max_depth + 1, the activation at depth max_depth + 1 returns without
\* recursing, and the rendering terminates
C27_HardCeiling ==
    /\ []EnteredWithin(call.data.max_depth + 1)
    /\ [][ReturnsPastMaxDepth]_vars
    /\ <>(pc = "done")

\* C27, amended: for every input and every integer max_depth,
\* _render_json_content is never entered with depth greater than
\* max(max_depth + 1, 0), an activation at a depth greater than max_depth
\* returns without recursing, and the rendering terminates
C27_CeilingFromTopLevel ==
    /\ []EnteredWithin(DepthCeiling)
    /\ [][ReturnsPastMaxDepth]_vars
    /\ <>(pc = "done" /\ stack = <<>>)

\* the recursion stands at depth max_depth + 1 inside data that nests deeper:
\* the innermost activation holds an object or array with entries
C27_Witness ==
    /\ pc = "rendering"
    /\ call.data.max_depth = 2
    /\ Len(stack) = 4
    /\ Top.depth = call.data.max_depth + 1
    /\ Len(LoopEntries(Top.value)) > 0

\* a negative max_depth below -1: the top-level activation is entered at
\* depth 0 and returns at once
C27_WitnessNegative ==
    /\ pc = "rendering"
    /\ call.data.max_depth = 0 - 2
    /\ Len(stack) = 1
    /\ Top.depth = 0
    /\ Len(LoopEntries(Top.value)) > 0

(***************************************************************************)
(* Properties of the render_chatkit_widget tool                            *)
(***************************************************************************)
\* the tool has ended, by returning or by raising
ToolEnded == call.op = "render_chatkit_widget" /\ pc = "done"

\* C29: in the render_chatkit_widget tool, for every widget_json that
\* parses as JSON (object or not), once the compiled widget has been
\* streamed to the client the tool returns a status "success" result; the
\* tool never streams a widget and then fails with an error for the same
\* invocation
C29_NoFailureAfterStream ==
    (ToolEnded /\ Len(streamed) > 0) => (~IsRaise(ret) /\ ret.status = "success")

\* for a widget_json that encodes an object the tool streams once and
\* returns success
C29_ObjectsSucceed ==
    (ToolEnded /\ ParsesAsJson(call.widget_json) /\ IsDict(widget_spec)) =>
        (Len(streamed) = 1 /\ ~IsRaise(ret) /\ ret.status = "success")

\* a text that is not JSON fails with nothing streamed
C29_InvalidJsonStreamsNothing ==
    (ToolEnded /\ ~ParsesAsJson(call.widget_json)) =>
        (streamed = <<>> /\ IsRaise(ret) /\ ret.exc = "ValueError")
====
